---- MODULE Spec2Model ----
(***************************************************************************)
(* A model of the PayJar language engine of payjar/src/payjar.ts: the      *)
(* Parser (token sequence -> AST), the tree-walking Interpreter (AST ->    *)
(* scopes, objects and console output) and the pure pieces the engine is   *)
(* built from (the binary operators, the template-string splitter).        *)
(*                                                                         *)
(* Values of the host language are records [t, n, s]: a number, a string,  *)
(* a boolean, null, undefined or a reference to a PayJarObject.  Strings   *)
(* are TLA+ strings; the text of a backtick template is a sequence of      *)
(* one-character strings, so that the splitter works on characters.        *)
(***************************************************************************)
EXTENDS Integers, Sequences, FiniteSets, TLC

VARIABLES
    tokens,                 \* Parser.tokens: the input of the run
    phase,                  \* position of the run: parse, hoist, exec, done, failed
    ast,                    \* the MainDefinitionNode Parser.parse returned
    pc,                     \* index of the next statement of ast.body in the current pass
    functions,              \* Interpreter.functions
    user_defined_classes,   \* Interpreter.user_defined_classes
    scopes,                 \* Interpreter.scopes
    objects,                \* the PayJarObject instances created so far
    output,                 \* what console.log received, in order
    error,                  \* the failure that ended the run (NoError while none)
    trace,                  \* history of the interpreter's steps (for ordering properties)
    protoValues,            \* the .value property set on members of Object.prototype
    inp,                    \* input of a pure function under check
    res,                    \* its result
    bf,                     \* the BrainfuckInterpreter instance (its fields)
    bfRun,                  \* the locals of its run() and buildBracketMap(): i, stack, map
    lexer,                  \* the Lexer instance: text, pos, current_char
    host                    \* the extension host: console.log, the output channels

vars == <<tokens, phase, ast, pc, functions, user_defined_classes, scopes,
          objects, output, error, trace, protoValues, inp, res, bf, bfRun, lexer, host>>

-----------------------------------------------------------------------------
(* Host-language values *)

Num(n)  == [t |-> "number", n |-> n, s |-> ""]
Str(s)  == [t |-> "string", n |-> 0, s |-> s]
Bool(b) == [t |-> "boolean", n |-> IF b THEN 1 ELSE 0, s |-> ""]
Null    == [t |-> "null", n |-> 0, s |-> ""]
Undefined == [t |-> "undefined", n |-> 0, s |-> ""]
ObjRef(i) == [t |-> "object", n |-> i, s |-> ""]
\* a value of the host language this model does not compute (NaN, Infinity, ...)
Unmodelled == [t |-> "unmodelled", n |-> 0, s |-> ""]

IsNum(v) == v.t = "number"
IsStr(v) == v.t = "string"
IsObj(v) == v.t = "object"

Abs(n) == IF n < 0 THEN 0 - n ELSE n

DigitChar(d) ==
    CASE d = 0 -> "0" [] d = 1 -> "1" [] d = 2 -> "2" [] d = 3 -> "3"
      [] d = 4 -> "4" [] d = 5 -> "5" [] d = 6 -> "6" [] d = 7 -> "7"
      [] d = 8 -> "8" [] d = 9 -> "9"

RECURSIVE NatToString(_)
NatToString(n) ==
    IF n < 10 THEN DigitChar(n)
    ELSE NatToString(n \div 10) \o DigitChar(n % 10)

\* String(n) for an integer n
NumberToString(n) == IF n < 0 THEN "-" \o NatToString(0 - n) ELSE NatToString(n)

RECURSIVE Join(_)
\* the string made of a sequence of one-character strings
Join(cs) == IF cs = <<>> THEN "" ELSE Head(cs) \o Join(Tail(cs))

-----------------------------------------------------------------------------
(* Plain host objects used as dictionaries ({}): scopes, the function and   *)
(* class tables, an instance's fields and methods.  The source tests        *)
(* membership with the `in` operator, which also finds the members every    *)
(* plain object inherits from Object.prototype.                             *)

\* the function-valued members a plain object inherits (the accessor __proto__
\* is left out)
ObjectPrototypeNames ==
    {"constructor", "toString", "valueOf", "hasOwnProperty", "isPrototypeOf",
     "propertyIsEnumerable", "toLocaleString", "__defineGetter__", "__defineSetter__",
     "__lookupGetter__", "__lookupSetter__"}

\* name in obj
In(name, obj) == name \in DOMAIN obj \/ name \in ObjectPrototypeNames

EmptyObject == [x \in {} |-> Null]

NoNode == [type |-> "null"]
NoInstance == 0

\* the interpreter's mutable state, threaded through the visit functions
InterpState(sc, ob, out, tr, pv, fn, cl) ==
    [scopes |-> sc, objects |-> ob, output |-> out, trace |-> tr,
     protoValues |-> pv, functions |-> fn, user_defined_classes |-> cl,
     depth |-> 0]

\* outcomes of a visit: a value, a FunctionReturn in flight, or an Error in flight
Normal(S, v)  == [S |-> S, ctl |-> "normal", value |-> v]
Return(S, v)  == [S |-> S, ctl |-> "return", value |-> v]
Throw(S, msg) == [S |-> S, ctl |-> "throw", value |-> [t |-> "Error", n |-> 0, s |-> msg]]
\* an exception of the host language itself (reading a property of undefined, ...)
HostThrow(S, kind) == [S |-> S, ctl |-> "throw", value |-> [t |-> kind, n |-> 0, s |-> ""]]

Log(S, ev) == [S EXCEPT !.trace = Append(@, ev)]

\* obj[name] for a dictionary of bindings: an own binding, or the inherited
\* member, whose .kind is undefined and whose .value is what was stored on it
Prop(S, obj, name) ==
    IF name \in DOMAIN obj THEN obj[name]
    ELSE [value |-> S.protoValues[name], kind |-> "undefined"]

Put(obj, name, b) == [n \in DOMAIN obj \cup {name} |-> IF n = name THEN b ELSE obj[n]]

current_scope(S) == S.scopes[Len(S.scopes)]

push_scope(S) == Log([S EXCEPT !.scopes = Append(@, EmptyObject)], <<"push">>)

pop_scope(S) ==
    IF Len(S.scopes) > 1
    THEN Normal(Log([S EXCEPT !.scopes = SubSeq(@, 1, Len(@) - 1)], <<"pop">>), Undefined)
    ELSE Throw(S, "Runtime Error: Cannot pop global scope.")

RECURSIVE FindScope(_, _, _)
\* the innermost scope index i' <= i with name in scopes[i'], 0 when none
FindScope(sc, name, i) ==
    IF i = 0 THEN 0
    ELSE IF In(name, sc[i]) THEN i
    ELSE FindScope(sc, name, i - 1)

\* getVariable that looks in the innermost scope and the global scope only
getVariable_Lexical(S, name) ==
    LET i == IF In(name, S.scopes[Len(S.scopes)]) THEN Len(S.scopes)
             ELSE IF In(name, S.scopes[1]) THEN 1 ELSE 0 IN
    IF i > 0 THEN Normal(S, Prop(S, S.scopes[i], name).value)
    ELSE Throw(S, "Runtime Error: Undefined variable '" \o name \o "'")

getVariable(S, name) ==
    LET i == FindScope(S.scopes, name, Len(S.scopes)) IN
    IF i > 0 THEN Normal(S, Prop(S, S.scopes[i], name).value)
    ELSE Throw(S, "Runtime Error: Undefined variable '" \o name \o "'")

\* this.scopes[i][name].value = value
StoreValue(S, i, name, value) ==
    IF name \in DOMAIN S.scopes[i]
    THEN [S EXCEPT !.scopes[i][name].value = value]
    ELSE [S EXCEPT !.protoValues[name] = value]

DeclareInCurrent(S, name, value, kind) ==
    [S EXCEPT !.scopes[Len(S.scopes)] = Put(@, name, [value |-> value, kind |-> kind])]

\* setVariable with the redeclaration check made against every scope of the
\* stack instead of the innermost one
setVariable_AnyScope(S, name, value, kind, declareIfNotExist) ==
    IF kind # ""
    THEN IF FindScope(S.scopes, name, Len(S.scopes)) > 0
         THEN Throw(S, "Runtime Error: Redeclaration of variable '" \o name
                        \o "' is not allowed in this scope.")
         ELSE Normal(DeclareInCurrent(S, name, value, kind), value)
    ELSE LET i == FindScope(S.scopes, name, Len(S.scopes)) IN
         IF i > 0
         THEN IF Prop(S, S.scopes[i], name).kind = "CONST"
              THEN Throw(S, "Runtime Error: Cannot assign to a constant variable '"
                             \o name \o "'.")
              ELSE Normal(StoreValue(S, i, name, value), value)
         ELSE IF declareIfNotExist
              THEN Normal(DeclareInCurrent(S, name, value, "LET"), value)
              ELSE Throw(S, "Runtime Error: Assignment to undefined variable '"
                             \o name \o "'.")

\* setVariable without the test of the binding's kind before an assignment
setVariable_AssignConst(S, name, value, kind, declareIfNotExist) ==
    IF kind # ""
    THEN IF In(name, current_scope(S))
         THEN Throw(S, "Runtime Error: Redeclaration of variable '" \o name
                        \o "' is not allowed in this scope.")
         ELSE Normal(DeclareInCurrent(S, name, value, kind), value)
    ELSE LET i == FindScope(S.scopes, name, Len(S.scopes)) IN
         IF i > 0
         THEN Normal(StoreValue(S, i, name, value), value)
         ELSE IF declareIfNotExist
              THEN Normal(DeclareInCurrent(S, name, value, "LET"), value)
              ELSE Throw(S, "Runtime Error: Assignment to undefined variable '"
                             \o name \o "'.")

\* kind = "" stands for the default null
setVariable(S, name, value, kind, declareIfNotExist) ==
    IF kind # ""
    THEN IF In(name, current_scope(S))
         THEN Throw(S, "Runtime Error: Redeclaration of variable '" \o name
                        \o "' is not allowed in this scope.")
         ELSE Normal(DeclareInCurrent(S, name, value, kind), value)
    ELSE LET i == FindScope(S.scopes, name, Len(S.scopes)) IN
         IF i > 0
         THEN IF Prop(S, S.scopes[i], name).kind = "CONST"
              THEN Throw(S, "Runtime Error: Cannot assign to a constant variable '"
                             \o name \o "'.")
              ELSE Normal(StoreValue(S, i, name, value), value)
         ELSE IF declareIfNotExist
              THEN Normal(DeclareInCurrent(S, name, value, "LET"), value)
              ELSE Throw(S, "Runtime Error: Assignment to undefined variable '"
                             \o name \o "'.")

-----------------------------------------------------------------------------
(* Conversions and operators of the host language, on the modelled values *)

RECURSIVE JsToString(_, _, _)
RECURSIVE FieldsToString(_, _, _, _)

\* PayJarObject.toString: the fields as name=value, in insertion order
FieldsToString(S, o, i, fuel) ==
    IF i > Len(o.fieldOrder) THEN [ok |-> TRUE, s |-> ""]
    ELSE LET name == o.fieldOrder[i]
             v == JsToString(S, o.fields[name].value, fuel)
             rest == FieldsToString(S, o, i + 1, fuel)
         IN IF ~v.ok \/ ~rest.ok THEN [ok |-> FALSE, s |-> ""]
            ELSE [ok |-> TRUE,
                  s |-> name \o "=" \o v.s \o (IF i < Len(o.fieldOrder) THEN ", " ELSE "")
                        \o rest.s]

\* String(v); ok = FALSE when the conversion does not return (a cyclic object)
JsToString(S, v, fuel) ==
    CASE v.t = "number" -> [ok |-> TRUE, s |-> NumberToString(v.n)]
      [] v.t = "string" -> [ok |-> TRUE, s |-> v.s]
      [] v.t = "boolean" -> [ok |-> TRUE, s |-> IF v.n = 1 THEN "true" ELSE "false"]
      [] v.t = "null" -> [ok |-> TRUE, s |-> "null"]
      [] v.t = "undefined" -> [ok |-> TRUE, s |-> "undefined"]
      [] v.t = "object" ->
            IF fuel = 0 THEN [ok |-> FALSE, s |-> ""]
            ELSE LET o == S.objects[v.n]
                     f == FieldsToString(S, o, 1, fuel - 1)
                 IN IF ~f.ok THEN f
                    ELSE [ok |-> TRUE, s |-> "<Object " \o o.class_name \o " (" \o f.s \o ")>"]
      [] OTHER -> [ok |-> TRUE, s |-> "NaN"]

\* the quotient rounded toward minus infinity (Python's //) instead
TruncDiv_Floor(a, b) ==
    LET q == Abs(a) \div Abs(b) IN
    IF (a < 0) = (b < 0) THEN q
    ELSE IF Abs(a) % Abs(b) = 0 THEN 0 - q
    ELSE 0 - q - 1

\* Math.trunc(a / b) for integers a and b # 0
TruncDiv(a, b) ==
    LET q == Abs(a) \div Abs(b) IN
    IF (a < 0) = (b < 0) THEN q ELSE 0 - q

\* a % b of the host language: the remainder has the sign of the dividend
JsRem(a, b) ==
    LET m == Abs(a) % Abs(b) IN
    IF a < 0 THEN 0 - m ELSE m

\* the switch of Interpreter.visitBinaryOp on two evaluated operands
ApplyBinaryOp(S, operator, leftVal, rightVal) ==
    LET bothNum == IsNum(leftVal) /\ IsNum(rightVal)
        l == leftVal.n
        r == rightVal.n
        arith(v) == IF bothNum THEN Normal(S, Num(v)) ELSE Normal(S, Unmodelled)
        cmp(b) == IF bothNum THEN Normal(S, Bool(b)) ELSE Normal(S, Unmodelled)
    IN
    CASE operator = "+" ->
            IF bothNum THEN Normal(S, Num(l + r))
            ELSE IF {leftVal.t, rightVal.t} \cap {"string", "object"} # {}
            THEN LET ls == JsToString(S, leftVal, Len(S.objects) + 1)
                     rs == JsToString(S, rightVal, Len(S.objects) + 1)
                 IN IF ls.ok /\ rs.ok THEN Normal(S, Str(ls.s \o rs.s))
                    ELSE HostThrow(S, "RangeError")
            ELSE Normal(S, Unmodelled)
      [] operator = "-" -> arith(l - r)
      [] operator = "*" -> arith(l * r)
      [] operator = "/" ->
            IF IsNum(rightVal) /\ r = 0 THEN Throw(S, "Runtime Error: Division by zero.")
            ELSE IF bothNum THEN Normal(S, Num(TruncDiv(l, r)))
            ELSE Normal(S, Unmodelled)
      [] operator = "%" ->
            IF IsNum(rightVal) /\ r = 0 THEN Throw(S, "Runtime Error: Modulo by zero.")
            ELSE IF bothNum THEN Normal(S, Num(JsRem(l, r)))
            ELSE Normal(S, Unmodelled)
      [] operator = "==" ->
            IF Unmodelled \in {leftVal, rightVal} THEN Normal(S, Unmodelled)
            ELSE Normal(S, Bool(leftVal = rightVal))
      [] operator = "!=" ->
            IF Unmodelled \in {leftVal, rightVal} THEN Normal(S, Unmodelled)
            ELSE Normal(S, Bool(leftVal # rightVal))
      [] operator = "<" -> cmp(l < r)
      [] operator = ">" -> cmp(l > r)
      [] operator = "<=" -> cmp(l <= r)
      [] operator = ">=" -> cmp(l >= r)
      [] OTHER -> Throw(S, "Runtime Error: Unsupported binary operator: " \o operator)

ApplyUnaryOp(S, operator, operandVal) ==
    IF operandVal.t \notin {"number", "unmodelled"}
    THEN Throw(S, "Runtime Error: Unary operator " \o operator
                   \o " applied to non-numeric type.")
    ELSE IF operandVal.t = "unmodelled" THEN Normal(S, Unmodelled)
    ELSE IF operator = "+" THEN Normal(S, Num(operandVal.n))
    ELSE IF operator = "-" THEN Normal(S, Num(0 - operandVal.n))
    ELSE Throw(S, "Runtime Error: Unsupported unary operator: " \o operator)

-----------------------------------------------------------------------------
(* Interpreter: the visit dispatcher and the visit implementations *)

\* nested calls the host stack holds before it raises RangeError
MaxCallDepth == 4

RECURSIVE visit(_, _, _)
RECURSIVE visitAll(_, _, _, _, _)
RECURSIVE runBody(_, _, _, _)
RECURSIVE bindParameters(_, _, _, _, _)
RECURSIVE initFields(_, _, _, _, _)
RECURSIVE visitTemplateParts(_, _, _, _)

\* nodes.map(n => this.visit(n, inst)): left to right, stopping at the first
\* node that does not complete; value is the sequence of results
visitAll(nodes, i, inst, S, acc) ==
    IF i > Len(nodes) THEN Normal(S, acc)
    ELSE LET r == visit(nodes[i], inst, S) IN
         IF r.ctl # "normal" THEN r
         ELSE visitAll(nodes, i + 1, inst, r.S, Append(acc, r.value))

\* for (const statement of body) this.visit(statement, inst)
runBody(body, i, inst, S) ==
    IF i > Len(body) THEN Normal(S, Undefined)
    ELSE LET r == visit(body[i], inst, S) IN
         IF r.ctl # "normal" THEN r
         ELSE runBody(body, i + 1, inst, r.S)

\* for (i ...) this.setVariable(params[i + offset], args[i], 'LET')
bindParameters(params, offset, args, i, S) ==
    IF i > Len(args) THEN Normal(S, Undefined)
    ELSE LET r == setVariable(S, params[i + offset], args[i], "LET", FALSE) IN
         IF r.ctl # "normal" THEN r
         ELSE bindParameters(params, offset, args, i + 1, r.S)

visitPrintStatement(node, S) ==
    LET r == visit(node.expression, NoInstance, S) IN
    IF r.ctl # "normal" THEN r
    ELSE Normal(Log([r.S EXCEPT !.output = Append(@, r.value)], <<"print", r.value>>),
                Undefined)

\* what a call of setVariable did, for the history: the scopes before it, how
\* it ended (its value, or its error), the scopes after it
Recorded(what, name, kind, before, w) ==
    [w EXCEPT !.S = Log(w.S, <<what, name, kind, before.scopes, w.ctl, w.value, w.S.scopes>>)]

visitVariableDeclaration(node, S) ==
    LET r == visit(node.value, NoInstance, S) IN
    IF r.ctl # "normal" THEN r
    ELSE LET w == Recorded("declare", node.name, node.kind, r.S,
                           setVariable(r.S, node.name, r.value, node.kind, FALSE)) IN
         IF w.ctl # "normal" THEN w ELSE Normal(w.S, Undefined)

visitAssignmentStatement(node, S) ==
    LET r == visit(node.value, NoInstance, S) IN
    IF r.ctl # "normal" THEN r
    ELSE LET w == Recorded("assign", node.name, "", r.S,
                           setVariable(r.S, node.name, r.value, "", FALSE)) IN
         IF w.ctl # "normal" THEN w ELSE Normal(w.S, Undefined)

visitVariableAccess(node, S) == getVariable(S, node.name)

visitTemplateParts(parts, i, S, resultString) ==
    IF i > Len(parts) THEN Normal(S, Str(resultString))
    ELSE LET part == parts[i] IN
         IF part.type = "literal"
         THEN visitTemplateParts(parts, i + 1, S, resultString \o part.value.s)
         ELSE IF part.type = "variable_access"
         THEN LET g == getVariable(S, part.name) IN
              IF g.ctl # "normal" THEN g
              ELSE LET str == JsToString(S, g.value, Len(S.objects) + 1) IN
                   IF ~str.ok THEN HostThrow(S, "RangeError")
                   ELSE visitTemplateParts(parts, i + 1, S, resultString \o str.s)
         ELSE Throw(S, "Runtime Error: Unexpected part in template string: " \o part.type)

visitTemplateString(node, S) == visitTemplateParts(node.parts, 1, S, "")

visitFunctionDefinition(node, S) ==
    IF ~node.is_method /\ In(node.name, S.functions)
    THEN Throw(S, "Runtime Error: Function '" \o node.name \o "' already defined globally.")
    ELSE Normal([S EXCEPT !.functions = Put(@, node.name, node)], Undefined)

\* a class table in which a later definition replaces an earlier one
visitClassDefinition_Overwrite(node, S) ==
    Normal([S EXCEPT !.user_defined_classes = Put(@, node.name, node)], Undefined)

visitClassDefinition(node, S) ==
    IF In(node.name, S.user_defined_classes)
    THEN Throw(S, "Runtime Error: Class '" \o node.name \o "' already defined.")
    ELSE Normal([S EXCEPT !.user_defined_classes = Put(@, node.name, node)], Undefined)

\* the try / catch (FunctionReturn) / finally { pop_scope } around a body;
\* keepReturn: the call's result is the returned value (a constructor drops it)
runBodyAndPop(body, inst, S, keepReturn) ==
    LET b == runBody(body, 1, inst, [S EXCEPT !.depth = @ + 1])
        p == pop_scope([b.S EXCEPT !.depth = S.depth])
    IN IF p.ctl # "normal" THEN p
       ELSE IF b.ctl = "throw" THEN [b EXCEPT !.S = p.S]
       ELSE IF b.ctl = "return" /\ keepReturn THEN Normal(p.S, b.value)
       ELSE Normal(p.S, Null)

visitFunctionCall(node, currentInstance, S) ==
    LET funcName == node.name
        inMethods == currentInstance # NoInstance
                      /\ In(funcName, S.objects[currentInstance].methods)
        table == IF inMethods THEN S.objects[currentInstance].methods ELSE S.functions
    IN
    IF ~inMethods /\ ~In(funcName, S.functions)
    THEN Throw(S, "Runtime Error: Call to undefined function or method '" \o funcName \o "'")
    ELSE IF funcName \notin DOMAIN table
    THEN HostThrow(S, "TypeError")   \* the inherited member has no .parameters
    ELSE
    LET funcDefinition == table[funcName]
        expectedParams == funcDefinition.parameters
        providedArgsNodes == node.arguments
        isMethod == funcDefinition.is_method
        paramOffset == IF isMethod /\ Len(expectedParams) > 0 /\ expectedParams[1] = "self"
                       THEN 1 ELSE 0
        expectedArgsCount == Len(expectedParams) - paramOffset
    IN
    IF expectedArgsCount # Len(providedArgsNodes)
    THEN Throw(S, "Runtime Error: Function/Method '" \o funcName \o "' expected "
                   \o NumberToString(expectedArgsCount) \o " arguments but got "
                   \o NumberToString(Len(providedArgsNodes)))
    ELSE IF S.depth >= MaxCallDepth THEN HostThrow(S, "RangeError")
    ELSE
    LET S1 == push_scope(Log(S, <<"call", funcName>>))
        s2 == IF isMethod /\ currentInstance # NoInstance
              THEN setVariable(S1, "self", ObjRef(currentInstance), "LET", FALSE)
              ELSE Normal(S1, Undefined)
        a == visitAll(providedArgsNodes, 1, currentInstance, s2.S, <<>>)
    IN
    IF a.ctl # "normal" THEN a
    ELSE LET b == bindParameters(expectedParams, paramOffset, a.value, 1, a.S) IN
         IF b.ctl # "normal" THEN b
         ELSE runBodyAndPop(funcDefinition.body, currentInstance, b.S, TRUE)

visitReturnStatement(node, S) ==
    LET r == visit(node.expression, NoInstance, S) IN
    IF r.ctl # "normal" THEN r ELSE Return(r.S, r.value)

\* for (const field of classDefinition.fields) instanceFields[field.name] = ...
\* acc = [fields, fieldOrder]
initFields(fieldDecls, i, S, fields, order) ==
    IF i > Len(fieldDecls) THEN Normal(S, [fields |-> fields, fieldOrder |-> order])
    ELSE LET field == fieldDecls[i]
             r == IF field.value # NoNode THEN visit(field.value, NoInstance, S)
                  ELSE Normal(S, Null)
         IN IF r.ctl # "normal" THEN r
            ELSE initFields(fieldDecls, i + 1, r.S,
                            Put(fields, field.name, [value |-> r.value, kind |-> field.kind]),
                            IF field.name \in DOMAIN fields THEN order
                            ELSE Append(order, field.name))

\* for (const methodNode of classDefinition.methods) instanceMethods[name] = methodNode
MethodTable(methods) ==
    LET names == {methods[i].name : i \in DOMAIN methods}
        last(n) == CHOOSE i \in DOMAIN methods :
                      /\ methods[i].name = n
                      /\ \A j \in DOMAIN methods : methods[j].name = n => j <= i
    IN [n \in names |-> [methods[last(n)] EXCEPT !.is_method = TRUE]]

visitObjectCreation(node, S) ==
    LET className == node.class_name
        a == visitAll(node.arguments, 1, NoInstance, Log(S, <<"new", className>>), <<>>)
    IN
    IF a.ctl # "normal" THEN a
    ELSE IF className \notin DOMAIN a.S.user_defined_classes
    THEN IF className \in ObjectPrototypeNames
         THEN HostThrow(a.S, "TypeError")  \* the inherited member has no .fields
         ELSE Throw(a.S, "Runtime Error: Attempt to create instance of undefined class '"
                          \o className \o "'")
    ELSE
    LET classDefinition == a.S.user_defined_classes[className]
        evaluatedArgs == a.value
        f == initFields(classDefinition.fields, 1, a.S, EmptyObject, <<>>)
    IN
    IF f.ctl # "normal" THEN f
    ELSE
    LET instance == [class_name |-> className, fields |-> f.value.fields,
                     fieldOrder |-> f.value.fieldOrder,
                     methods |-> MethodTable(classDefinition.methods)]
        id == Len(f.S.objects) + 1
        S1 == [f.S EXCEPT !.objects = Append(@, instance)]
    IN
    IF classDefinition.ctor = NoNode THEN Normal(S1, ObjRef(id))
    ELSE
    LET constructorNode == classDefinition.ctor
        expectedConstructorParams == constructorNode.parameters
    IN
    IF Len(expectedConstructorParams) = 0 \/ expectedConstructorParams[1] # "self"
    THEN Throw(S1, "Runtime Error: Constructor 'init' for class '" \o className
                    \o "' must have 'self' as its first parameter.")
    ELSE IF Len(expectedConstructorParams) - 1 # Len(evaluatedArgs)
    THEN Throw(S1, "Runtime Error: Constructor for '" \o className \o "' expected "
                    \o NumberToString(Len(expectedConstructorParams) - 1)
                    \o " arguments but got " \o NumberToString(Len(evaluatedArgs)))
    ELSE IF S1.depth >= MaxCallDepth THEN HostThrow(S1, "RangeError")
    ELSE
    LET S2 == push_scope(Log(S1, <<"call", "init">>))
        s3 == setVariable(S2, "self", ObjRef(id), "LET", FALSE)
        b == bindParameters(expectedConstructorParams, 1, evaluatedArgs, 1, s3.S)
    IN
    IF b.ctl # "normal" THEN b
    ELSE LET c == runBodyAndPop(constructorNode.body, id, b.S, FALSE) IN
         IF c.ctl # "normal" THEN c ELSE Normal(c.S, ObjRef(id))

visitMemberAccess(node, currentInstance, S) ==
    LET o == visit(node.object, NoInstance, S) IN
    IF o.ctl # "normal" THEN o
    ELSE IF ~IsObj(o.value)
    THEN Throw(o.S, "Runtime Error: Attempt to access member '" \o node.member
                     \o "' on a non-object type.")
    ELSE
    LET obj == o.S.objects[o.value.n]
        memberName == node.member
    IN
    IF node.is_call
    THEN IF ~In(memberName, obj.methods)
         THEN Throw(o.S, "Runtime Error: Method '" \o memberName
                          \o "' not found on object of type '" \o obj.class_name \o "'")
         ELSE visitFunctionCall([type |-> "function_call", name |-> memberName,
                                 arguments |-> node.arguments], o.value.n, o.S)
    ELSE IF ~In(memberName, obj.fields)
         THEN Throw(o.S, "Runtime Error: Field '" \o memberName
                          \o "' not found on object of type '" \o obj.class_name \o "'")
         ELSE Normal(o.S, Prop(o.S, obj.fields, memberName).value)

\* a member assignment that writes the field of every instance of the class,
\* as if the instances shared the class's field bindings
visitMemberAssignment_Shared(node, currentInstance, S) ==
    LET o == visit(node.object, NoInstance, S) IN
    IF o.ctl # "normal" THEN o
    ELSE IF ~IsObj(o.value)
    THEN Throw(o.S, "Runtime Error: Attempt to assign member '" \o node.member
                     \o "' on a non-object type.")
    ELSE
    LET memberName == node.member
        v == visit(node.value, NoInstance, o.S)
    IN
    IF v.ctl # "normal" THEN v
    ELSE
    LET obj == v.S.objects[o.value.n] IN
    IF ~In(memberName, obj.fields)
    THEN Throw(v.S, "Runtime Error: Field '" \o memberName
                     \o "' not found on object of type '" \o obj.class_name
                     \o "' for assignment.")
    ELSE IF Prop(v.S, obj.fields, memberName).kind = "CONST"
    THEN Throw(v.S, "Runtime Error: Cannot assign to constant field '" \o memberName
                     \o "' of object '" \o obj.class_name \o "'.")
    ELSE IF memberName \in DOMAIN obj.fields
    THEN Normal([v.S EXCEPT !.objects =
                    [i \in DOMAIN @ |->
                        IF @[i].class_name = obj.class_name
                        THEN [@[i] EXCEPT !.fields[memberName].value = v.value]
                        ELSE @[i]]],
                Undefined)
    ELSE Normal([v.S EXCEPT !.protoValues[memberName] = v.value], Undefined)

visitMemberAssignment(node, currentInstance, S) ==
    LET o == visit(node.object, NoInstance, S) IN
    IF o.ctl # "normal" THEN o
    ELSE IF ~IsObj(o.value)
    THEN Throw(o.S, "Runtime Error: Attempt to assign member '" \o node.member
                     \o "' on a non-object type.")
    ELSE
    LET memberName == node.member
        v == visit(node.value, NoInstance, o.S)
    IN
    IF v.ctl # "normal" THEN v
    ELSE
    LET obj == v.S.objects[o.value.n] IN
    IF ~In(memberName, obj.fields)
    THEN Throw(v.S, "Runtime Error: Field '" \o memberName
                     \o "' not found on object of type '" \o obj.class_name
                     \o "' for assignment.")
    ELSE IF Prop(v.S, obj.fields, memberName).kind = "CONST"
    THEN Throw(v.S, "Runtime Error: Cannot assign to constant field '" \o memberName
                     \o "' of object '" \o obj.class_name \o "'.")
    ELSE IF memberName \in DOMAIN obj.fields
    THEN Normal([v.S EXCEPT !.objects[o.value.n].fields[memberName].value = v.value],
                Undefined)
    ELSE Normal([v.S EXCEPT !.protoValues[memberName] = v.value], Undefined)

visitBinaryOp(node, S) ==
    LET l == visit(node.left, NoInstance, S) IN
    IF l.ctl # "normal" THEN l
    ELSE LET r == visit(node.right, NoInstance, l.S) IN
         IF r.ctl # "normal" THEN r
         ELSE ApplyBinaryOp(r.S, node.operator, l.value, r.value)

visitUnaryOp(node, S) ==
    LET r == visit(node.operand, NoInstance, S) IN
    IF r.ctl # "normal" THEN r
    ELSE ApplyUnaryOp(r.S, node.operator, r.value)

\* a dispatcher that hands no receiver to a function call
visit_NoReceiver(node, current_instance, S) ==
    CASE node.type = "print_statement" -> visitPrintStatement(node, S)
      [] node.type = "variable_declaration" -> visitVariableDeclaration(node, S)
      [] node.type = "assignment_statement" -> visitAssignmentStatement(node, S)
      [] node.type = "literal" -> Normal(S, node.value)
      [] node.type = "variable_access" -> visitVariableAccess(node, S)
      [] node.type = "template_string" -> visitTemplateString(node, S)
      [] node.type = "function_definition" -> visitFunctionDefinition(node, S)
      [] node.type = "function_call" -> visitFunctionCall(node, NoInstance, S)
      [] node.type = "return_statement" -> visitReturnStatement(node, S)
      [] node.type = "class_definition" -> visitClassDefinition(node, S)
      [] node.type = "object_creation" -> visitObjectCreation(node, S)
      [] node.type = "member_access" -> visitMemberAccess(node, current_instance, S)
      [] node.type = "member_assignment" -> visitMemberAssignment(node, current_instance, S)
      [] node.type = "binary_op" -> visitBinaryOp(node, S)
      [] node.type = "unary_op" -> visitUnaryOp(node, S)
      [] node.type = "field_declaration" -> Normal(S, Undefined)
      [] OTHER -> Throw(S, "Runtime Error: Unknown AST node type: " \o node.type)

visit(node, current_instance, S) ==
    CASE node.type = "print_statement" -> visitPrintStatement(node, S)
      [] node.type = "variable_declaration" -> visitVariableDeclaration(node, S)
      [] node.type = "assignment_statement" -> visitAssignmentStatement(node, S)
      [] node.type = "literal" -> Normal(S, node.value)
      [] node.type = "variable_access" -> visitVariableAccess(node, S)
      [] node.type = "template_string" -> visitTemplateString(node, S)
      [] node.type = "function_definition" -> visitFunctionDefinition(node, S)
      [] node.type = "function_call" -> visitFunctionCall(node, current_instance, S)
      [] node.type = "return_statement" -> visitReturnStatement(node, S)
      [] node.type = "class_definition" -> visitClassDefinition(node, S)
      [] node.type = "object_creation" -> visitObjectCreation(node, S)
      [] node.type = "member_access" -> visitMemberAccess(node, current_instance, S)
      [] node.type = "member_assignment" -> visitMemberAssignment(node, current_instance, S)
      [] node.type = "binary_op" -> visitBinaryOp(node, S)
      [] node.type = "unary_op" -> visitUnaryOp(node, S)
      [] node.type = "field_declaration" -> Normal(S, Undefined)
      [] OTHER -> Throw(S, "Runtime Error: Unknown AST node type: " \o node.type)

-----------------------------------------------------------------------------
(* Tokens.  value is the token's text; chars is the same text as a sequence *)
(* of characters, kept for the tokens whose text the parser looks into      *)
(* (NUMBER, BACKTICK_STRING) and empty for the others.                      *)

Token(type, value) == [type |-> type, value |-> value, chars |-> <<>>]
TextToken(type, chars) == [type |-> type, value |-> Join(chars), chars |-> chars]

NoToken == [type |-> "null", value |-> "", chars |-> <<>>]
NoError == [kind |-> "none", message |-> ""]

DigitValue(c) ==
    CASE c = "0" -> 0 [] c = "1" -> 1 [] c = "2" -> 2 [] c = "3" -> 3 [] c = "4" -> 4
      [] c = "5" -> 5 [] c = "6" -> 6 [] c = "7" -> 7 [] c = "8" -> 8 [] c = "9" -> 9

RECURSIVE ParseInt(_)
\* parseInt(text, 10) of a NUMBER token's text (digits only)
ParseInt(cs) ==
    IF cs = <<>> THEN 0
    ELSE ParseInt(SubSeq(cs, 1, Len(cs) - 1)) * 10 + DigitValue(cs[Len(cs)])

-----------------------------------------------------------------------------
(* Template strings: stringContent.split(/(\$\{(\w+)\})/g).filter(p => p !== '') *)
(* and the loop that turns the parts into template parts                    *)

WordChars ==
    {"a", "b", "c", "d", "e", "f", "g", "h", "i", "j", "k", "l", "m", "n", "o", "p",
     "q", "r", "s", "t", "u", "v", "w", "x", "y", "z",
     "A", "B", "C", "D", "E", "F", "G", "H", "I", "J", "K", "L", "M", "N", "O", "P",
     "Q", "R", "S", "T", "U", "V", "W", "X", "Y", "Z",
     "0", "1", "2", "3", "4", "5", "6", "7", "8", "9", "_"}

RECURSIVE WordRun(_, _)
\* the length of the longest run of \w characters of cs that starts at index i
WordRun(cs, i) ==
    IF i <= Len(cs) /\ cs[i] \in WordChars THEN 1 + WordRun(cs, i + 1) ELSE 0

\* the length of the match of \$\{(\w+)\} at index i of cs, 0 when none
SpliceAt(cs, i) ==
    IF i + 1 <= Len(cs) /\ cs[i] = "$" /\ cs[i + 1] = "{"
    THEN LET w == WordRun(cs, i + 2) IN
         IF w >= 1 /\ i + 2 + w <= Len(cs) /\ cs[i + 2 + w] = "}" THEN w + 3 ELSE 0
    ELSE 0

RECURSIVE SplitTemplate(_, _, _)
\* split with the two capture groups: text, whole match, name, text, ...
\* from is where the current piece of text starts, i the scanning position
SplitTemplate(cs, from, i) ==
    IF i > Len(cs) THEN <<SubSeq(cs, from, Len(cs))>>
    ELSE LET m == SpliceAt(cs, i) IN
         IF m = 0 THEN SplitTemplate(cs, from, i + 1)
         ELSE <<SubSeq(cs, from, i - 1), SubSeq(cs, i, i + m - 1),
                SubSeq(cs, i + 2, i + m - 2)>>
              \o SplitTemplate(cs, i + m, i + m)

NonEmptyParts(parts) == SelectSeq(parts, LAMBDA p : p # <<>>)

StartsWithSplice(part) == Len(part) >= 2 /\ part[1] = "$" /\ part[2] = "{"
EndsWithBrace(part) == Len(part) >= 1 /\ part[Len(part)] = "}"

RECURSIVE TemplateParts(_, _)
\* the for loop over parts; i is the 0-based loop index
TemplateParts(parts, i) ==
    IF i >= Len(parts) THEN <<>>
    ELSE LET part == parts[i + 1] IN
         IF StartsWithSplice(part) /\ EndsWithBrace(part)
         THEN <<[type |-> "variable_access",
                 name |-> Join(SubSeq(part, 3, Len(part) - 1))]>>
              \o TemplateParts(parts, i + 2)
         ELSE IF i % 2 = 0
         THEN <<[type |-> "literal", value |-> Str(Join(part)), data_type |-> "string"]>>
              \o TemplateParts(parts, i + 1)
         ELSE TemplateParts(parts, i + 1)

\* the template_string node of a BACKTICK_STRING token's text
ParseTemplate(stringContent) ==
    [type |-> "template_string",
     parts |-> TemplateParts(NonEmptyParts(SplitTemplate(stringContent, 1, 1)), 0)]

-----------------------------------------------------------------------------
(* Parser.  A parser state P is [tokens, token_index]; token_index is the   *)
(* 0-based index of the source.  Every parse function returns               *)
(* [P, ok, node, err]: the state after it, and either the node it built or  *)
(* the exception it threw.                                                  *)

ParserInit(toks) == [tokens |-> toks, token_index |-> 0]

current_token(P) ==
    IF P.token_index < Len(P.tokens) THEN P.tokens[P.token_index + 1] ELSE NoToken

\* this.tokens[this.token_index + 1]
next_token(P) ==
    IF P.token_index + 1 < Len(P.tokens) THEN P.tokens[P.token_index + 2] ELSE NoToken

advance(P) == [P EXCEPT !.token_index = @ + 1]

Ok(P, node) == [P |-> P, ok |-> TRUE, node |-> node, err |-> NoError]
Fail(P, kind, message) ==
    [P |-> P, ok |-> FALSE, node |-> NoNode, err |-> [kind |-> kind, message |-> message]]

\* reading .value or .type of current_token when it is null
NullDeref(P) == Fail(P, "TypeError", "Cannot read properties of null")

ExpectedMessage(token_type, P) ==
    "Syntax Error: Expected " \o token_type \o ", but got "
    \o (IF current_token(P) = NoToken THEN "EOF" ELSE current_token(P).type)
    \o ". Index: " \o NumberToString(P.token_index)

eat(P, token_type) ==
    IF current_token(P) # NoToken /\ current_token(P).type = token_type
    THEN Ok(advance(P), NoNode)
    ELSE Fail(P, "Error", ExpectedMessage(token_type, P))

\* what follows a parse step: the exception of r goes on, or K sees its result
Then(r, K(_)) == IF r.ok THEN K(r) ELSE r

RECURSIVE eatAll(_, _)
\* consecutive calls of eat
eatAll(P, types) ==
    IF types = <<>> THEN Ok(P, NoNode)
    ELSE Then(eat(P, Head(types)), LAMBDA e : eatAll(e.P, Tail(types)))

\* The methods of Parser call one another through this: this(method, P,
\* argument) is this.method(argument) in parser state P.
RECURSIVE this(_, _, _)
\* the argument of a method that takes none
NoArgument == <<>>

RECURSIVE parseExpressionLoop(_, _)
RECURSIVE parseTermLoop(_, _)
RECURSIVE parseFactorLoop(_, _)
RECURSIVE parseArgumentsLoop(_, _)

BinaryOpNode(operator, left, right) ==
    [type |-> "binary_op", operator |-> operator, left |-> left, right |-> right]

parseExpressionLoop(P, left) ==
    IF current_token(P).type \in {"EQUAL_EQUAL", "NOT_EQUAL", "LESS_THAN", "GREATER_THAN",
                                   "LESS_EQUAL", "GREATER_EQUAL"}
    THEN Then(this("parseTerm", advance(P), NoArgument),
              LAMBDA r : parseExpressionLoop(
                             r.P, BinaryOpNode(current_token(P).value, left, r.node)))
    ELSE Ok(P, left)

parseExpression(P) ==
    Then(this("parseTerm", P, NoArgument), LAMBDA l : parseExpressionLoop(l.P, l.node))

parseTermLoop(P, left) ==
    IF current_token(P).type \in {"PLUS", "MINUS"}
    THEN Then(this("parseFactor", advance(P), NoArgument),
              LAMBDA r : parseTermLoop(
                             r.P, BinaryOpNode(current_token(P).value, left, r.node)))
    ELSE Ok(P, left)

parseTerm(P) ==
    Then(this("parseFactor", P, NoArgument), LAMBDA l : parseTermLoop(l.P, l.node))

parseFactorLoop(P, left) ==
    IF current_token(P).type \in {"MULTIPLY", "DIVIDE", "MODULO"}
    THEN Then(this("parsePrimaryExpression", advance(P), NoArgument),
              LAMBDA r : parseFactorLoop(
                             r.P, BinaryOpNode(current_token(P).value, left, r.node)))
    ELSE Ok(P, left)

\* a leading sign makes a unary_op of the primary expression after it and
\* returns; otherwise primary ((* | / | %) primary)*
parseFactor(P) ==
    Then(this("parsePrimaryExpression", IF current_token(P).type \in {"PLUS", "MINUS"}
                                THEN advance(P) ELSE P, NoArgument),
         LAMBDA o : IF current_token(P).type \in {"PLUS", "MINUS"}
                    THEN Ok(o.P, [type |-> "unary_op",
                                  operator |-> current_token(P).value,
                                  operand |-> o.node])
                    ELSE parseFactorLoop(o.P, o.node))

parseArgumentsLoop(P, argumentsList) ==
    IF current_token(P).type = "COMMA"
    THEN Then(this("parseExpression", advance(P), NoArgument),
              LAMBDA e : parseArgumentsLoop(e.P, Append(argumentsList, e.node)))
    ELSE Ok(P, argumentsList)

\* node is the list of argument nodes
parseArguments(P) ==
    IF current_token(P) # NoToken /\ current_token(P).type # "RPAREN"
    THEN Then(this("parseExpression", P, NoArgument), LAMBDA e : parseArgumentsLoop(e.P, <<e.node>>))
    ELSE Ok(P, <<>>)

\* ( arguments ) after a name; node is the list of argument nodes
parseCallArguments(P) ==
    Then(eat(P, "LPAREN"),
         LAMBDA l : Then(this("parseArguments", l.P, NoArgument),
                         LAMBDA a : Then(eat(a.P, "RPAREN"),
                                         LAMBDA r : Ok(r.P, a.node))))

\* name = "" stands for the omitted argument (an empty name is falsy as well)
parseFunctionCallExpression(P, name) ==
    IF name = "" /\ current_token(P) = NoToken THEN NullDeref(P)
    ELSE Then(IF name = "" THEN eat(P, "IDENTIFIER") ELSE Ok(P, NoNode),
              LAMBDA e : Then(parseCallArguments(e.P),
                              LAMBDA a : Ok(a.P, [type |-> "function_call",
                                                  name |-> IF name # "" THEN name
                                                           ELSE current_token(P).value,
                                                  arguments |-> a.node])))

\* what parseMemberAccess does once the member's name and arguments are read;
\* a is the result of reading the arguments
parseMemberTail(a, objExpr, memberName, isCall) ==
    IF current_token(a.P).type = "EQUAL"
    THEN Then(this("parseExpression", advance(a.P), NoArgument),
              LAMBDA v : Then(eat(v.P, "SEMICOLON"),
                              LAMBDA sc : Ok(sc.P, [type |-> "member_assignment",
                                                    object |-> objExpr,
                                                    member |-> memberName,
                                                    value |-> v.node])))
    ELSE Ok(a.P, [type |-> "member_access", object |-> objExpr, member |-> memberName,
                  is_call |-> isCall, arguments |-> a.node])

parseMemberAccess(P, objExpr) ==
    Then(eat(P, "DOT"),
         LAMBDA d :
           IF current_token(d.P) = NoToken THEN NullDeref(d.P)
           ELSE Then(eat(d.P, "IDENTIFIER"),
                     LAMBDA m :
                       Then(IF current_token(m.P).type = "LPAREN"
                            THEN parseCallArguments(m.P)
                            ELSE Ok(m.P, <<>>),
                            LAMBDA a : parseMemberTail(a, objExpr,
                                                       current_token(d.P).value,
                                                       current_token(m.P).type = "LPAREN"))))

parseNewExpression(P) ==
    Then(eat(P, "NEW"),
         LAMBDA n :
           IF current_token(n.P) = NoToken THEN NullDeref(n.P)
           ELSE Then(eat(n.P, "IDENTIFIER"),
                     LAMBDA h : Then(parseCallArguments(h.P),
                                     LAMBDA a : Ok(a.P, [type |-> "object_creation",
                                                         class_name |-> current_token(n.P).value,
                                                         arguments |-> a.node]))))

\* readln(prompt): a placeholder literal whose value is the empty string
parseInputStatement(P) ==
    Then(eatAll(P, <<"READLN", "LPAREN">>),
         LAMBDA h : Then(this("parseExpression", h.P, NoArgument),
                         LAMBDA e : Then(eat(e.P, "RPAREN"),
                                         LAMBDA r : Ok(r.P, [type |-> "literal",
                                                             value |-> Str(""),
                                                             data_type |-> "string"]))))

parsePrimaryExpression(P) ==
    LET tok == current_token(P) IN
    IF tok = NoToken THEN NullDeref(P)
    ELSE IF tok.type = "STRING_LITERAL"
    THEN Ok(advance(P), [type |-> "literal", value |-> Str(tok.value), data_type |-> "string"])
    ELSE IF tok.type = "NUMBER"
    THEN Ok(advance(P), [type |-> "literal", value |-> Num(ParseInt(tok.chars)),
                         data_type |-> "number"])
    ELSE IF tok.type = "BACKTICK_STRING"
    THEN Ok(advance(P), ParseTemplate(tok.chars))
    ELSE IF tok.type = "IDENTIFIER"
    THEN IF current_token(advance(P)).type = "LPAREN"
         THEN this("parseFunctionCallExpression", advance(P), tok.value)
         ELSE IF current_token(advance(P)).type = "DOT"
         THEN this("parseMemberAccess", advance(P), [type |-> "variable_access", name |-> tok.value])
         ELSE Ok(advance(P), [type |-> "variable_access", name |-> tok.value])
    ELSE IF tok.type = "READLN" THEN this("parseInputStatement", P, NoArgument)
    ELSE IF tok.type = "NEW" THEN this("parseNewExpression", P, NoArgument)
    ELSE IF tok.type = "LPAREN"
    THEN Then(this("parseExpression", advance(P), NoArgument),
              LAMBDA e : Then(eat(e.P, "RPAREN"), LAMBDA c : Ok(c.P, e.node)))
    ELSE Fail(P, "Error",
              "Syntax Error: Unexpected token in primary expression: " \o tok.type)

\* eat(SEMICOLON) after a statement's node is built
endStatement(r) == Then(eat(r.P, "SEMICOLON"), LAMBDA t : Ok(t.P, r.node))

parsePrintStatement(P) ==
    Then(eatAll(P, <<"PRINT", "LPAREN">>),
         LAMBDA h : Then(this("parseExpression", h.P, NoArgument),
                         LAMBDA e : Then(eatAll(e.P, <<"RPAREN", "SEMICOLON">>),
                                         LAMBDA t : Ok(t.P, [type |-> "print_statement",
                                                             expression |-> e.node]))))

parseVariableDeclaration(P) ==
    IF current_token(advance(P)) = NoToken THEN NullDeref(advance(P))
    ELSE Then(eatAll(advance(P), <<"IDENTIFIER", "EQUAL">>),
              LAMBDA h : Then(this("parseExpression", h.P, NoArgument),
                              LAMBDA e : endStatement(
                                  Ok(e.P, [type |-> "variable_declaration",
                                           kind |-> current_token(P).type,
                                           name |-> current_token(advance(P)).value,
                                           value |-> e.node]))))

parseAssignmentStatement(P) ==
    Then(eatAll(P, <<"IDENTIFIER", "EQUAL">>),
         LAMBDA h : Then(this("parseExpression", h.P, NoArgument),
                         LAMBDA e : endStatement(
                             Ok(e.P, [type |-> "assignment_statement",
                                      name |-> current_token(P).value,
                                      value |-> e.node]))))

parseReturnStatement(P) ==
    Then(eat(P, "RETURN"),
         LAMBDA h : Then(this("parseExpression", h.P, NoArgument),
                         LAMBDA e : endStatement(
                             Ok(e.P, [type |-> "return_statement",
                                      expression |-> e.node]))))

\* the statement that starts with an IDENTIFIER, in the main body and in a
\* function body alike; where names the body in the error message
parseIdentifierStatement(P, where) ==
    IF next_token(P).type = "EQUAL" THEN this("parseAssignmentStatement", P, NoArgument)
    ELSE IF next_token(P).type = "DOT"
    THEN Then(this("parseMemberAccess", advance(P), [type |-> "variable_access",
                                             name |-> current_token(P).value]),
              LAMBDA m : IF m.node.type = "member_access" /\ m.node.is_call
                         THEN endStatement(m)
                         ELSE m)
    ELSE IF next_token(P).type = "LPAREN"
    THEN Then(this("parseFunctionCallExpression", P, ""), LAMBDA c : endStatement(c))
    ELSE Fail(P, "Error", "Syntax Error: Unexpected token in " \o where \o ": "
                           \o current_token(P).type)

RECURSIVE parseParametersLoop(_, _)
\* while (COMMA) { eat(COMMA); parameters.push(current_token.value); eat(IDENTIFIER) }
parseParametersLoop(P, parameters) ==
    IF current_token(P).type = "COMMA"
    THEN IF current_token(advance(P)) = NoToken THEN NullDeref(advance(P))
         ELSE Then(eat(advance(P), "IDENTIFIER"),
                   LAMBDA e : parseParametersLoop(
                                  e.P, Append(parameters, current_token(advance(P)).value)))
    ELSE Ok(P, parameters)

\* the parameter list read without the test that keeps `self` out of a free
\* function's parameters
parseParameters_SelfInFreeFunction(P, isMethod) ==
    IF current_token(P) # NoToken /\ current_token(P).type # "RPAREN"
    THEN IF current_token(P).type = "SELF"
         THEN parseParametersLoop(advance(P), <<current_token(P).value>>)
         ELSE Then(eat(P, "IDENTIFIER"),
                   LAMBDA e : parseParametersLoop(e.P, <<current_token(P).value>>))
    ELSE Ok(P, <<>>)

\* node is the list of parameter names
parseParameters(P, isMethod) ==
    IF current_token(P) # NoToken /\ current_token(P).type # "RPAREN"
    THEN IF isMethod /\ current_token(P).type = "SELF"
         THEN parseParametersLoop(advance(P), <<current_token(P).value>>)
         ELSE IF ~isMethod /\ current_token(P).type = "SELF"
         THEN Fail(P, "Error", "Syntax Error: The 'self' parameter is only allowed in class method definitions.")
         ELSE Then(eat(P, "IDENTIFIER"),
                   LAMBDA e : parseParametersLoop(e.P, <<current_token(P).value>>))
    ELSE Ok(P, <<>>)

\* one statement of a function body
parseFunctionStatement(P) ==
    LET tok == current_token(P) IN
    IF tok.type = "RETURN" THEN this("parseReturnStatement", P, NoArgument)
    ELSE IF tok.type = "PRINT" THEN this("parsePrintStatement", P, NoArgument)
    ELSE IF tok.type \in {"CONST", "LET", "VAR"} THEN this("parseVariableDeclaration", P, NoArgument)
    ELSE IF tok.type = "IDENTIFIER" THEN this("parseIdentifierStatement", P, "function body")
    ELSE Fail(P, "Error", "Syntax Error: Unexpected token in function body: " \o tok.type)

RECURSIVE parseFunctionBody(_, _)
\* the while loop of parseFunctionDefinition; node is the list of statements
parseFunctionBody(P, body) ==
    IF current_token(P) = NoToken \/ current_token(P).type = "RBRACE" THEN Ok(P, body)
    ELSE Then(parseFunctionStatement(P),
              LAMBDA st : parseFunctionBody(st.P, Append(body, st.node)))

parseFunctionDefinition(P, isMethod) ==
    Then(eat(P, "DEF"),
         LAMBDA d :
           IF current_token(d.P) = NoToken THEN NullDeref(d.P)
           ELSE Then(eatAll(d.P, <<"IDENTIFIER", "LPAREN">>),
             LAMBDA h : Then(parseParameters(h.P, isMethod),
               LAMBDA ps : Then(eatAll(ps.P, <<"RPAREN", "LBRACE">>),
                 LAMBDA o : Then(parseFunctionBody(o.P, <<>>),
                   LAMBDA b : Then(eat(b.P, "RBRACE"),
                     LAMBDA c : Ok(c.P, [type |-> "function_definition",
                                         name |-> current_token(d.P).value,
                                         parameters |-> ps.node,
                                         body |-> b.node,
                                         is_method |-> isMethod])))))))

parseClassFieldDeclaration(P) ==
    IF current_token(advance(P)) = NoToken THEN NullDeref(advance(P))
    ELSE Then(eat(advance(P), "IDENTIFIER"),
              LAMBDA n : Then(IF current_token(n.P).type = "EQUAL"
                              THEN this("parseExpression", advance(n.P), NoArgument)
                              ELSE Ok(n.P, NoNode),
                              LAMBDA v : endStatement(
                                  Ok(v.P, [type |-> "field_declaration",
                                           kind |-> current_token(P).type,
                                           name |-> current_token(advance(P)).value,
                                           value |-> v.node]))))

RECURSIVE parseClassBody(_, _, _, _)
\* the while loop of parseClassDefinition; node is [fields, methods, ctor]
parseClassBody(P, members, methods, ctor) ==
    LET tok == current_token(P) IN
    IF tok = NoToken \/ tok.type = "RBRACE"
    THEN Ok(P, [fields |-> members, methods |-> methods, ctor |-> ctor])
    ELSE IF tok.type \in {"CONST", "LET"}
    THEN Then(this("parseClassFieldDeclaration", P, NoArgument),
              LAMBDA f : parseClassBody(f.P, Append(members, f.node), methods, ctor))
    ELSE IF tok.type = "DEF"
    THEN Then(this("parseFunctionDefinition", P, TRUE),
              LAMBDA m : IF m.node.name = "init"
                         THEN parseClassBody(m.P, members, methods, m.node)
                         ELSE parseClassBody(m.P, members, Append(methods, m.node), ctor))
    ELSE Fail(P, "Error", "Syntax Error: Unexpected token in class body: " \o tok.type)

parseClassDefinition(P) ==
    Then(IF current_token(P).type = "PUBLIC" THEN eat(P, "PUBLIC") ELSE Ok(P, NoNode),
      LAMBDA p : Then(eat(p.P, "CLASS"),
        LAMBDA c :
          IF current_token(c.P) = NoToken THEN NullDeref(c.P)
          ELSE Then(eatAll(c.P, <<"IDENTIFIER", "LPAREN", "AT", "INNERSELF", "RPAREN",
                                  "LBRACE">>),
            LAMBDA h : Then(parseClassBody(h.P, <<>>, <<>>, NoNode),
              LAMBDA b : Then(eat(b.P, "RBRACE"),
                LAMBDA e : Ok(e.P, [type |-> "class_definition",
                                    name |-> current_token(c.P).value,
                                    fields |-> b.node.fields,
                                    methods |-> b.node.methods,
                                    ctor |-> b.node.ctor]))))))

\* one statement of the main body
parseMainStatement(P) ==
    LET tok == current_token(P) IN
    IF tok.type = "PRINT" THEN this("parsePrintStatement", P, NoArgument)
    ELSE IF tok.type \in {"VAR", "CONST", "LET"} THEN this("parseVariableDeclaration", P, NoArgument)
    ELSE IF tok.type = "DEF" THEN this("parseFunctionDefinition", P, FALSE)
    ELSE IF tok.type \in {"PUBLIC", "CLASS"} THEN this("parseClassDefinition", P, NoArgument)
    ELSE IF tok.type = "IDENTIFIER" THEN this("parseIdentifierStatement", P, "main body")
    ELSE Fail(P, "Error", "Syntax Error: Unexpected token in main body: " \o tok.type)

RECURSIVE parseMainBody(_, _)
\* node is the list of statements
parseMainBody(P, statements) ==
    IF current_token(P) = NoToken \/ current_token(P).type = "RBRACE"
    THEN Ok(P, statements)
    ELSE Then(parseMainStatement(P),
              LAMBDA st : parseMainBody(st.P, Append(statements, st.node)))

parseMain(P) ==
    Then(eatAll(P, <<"PUBLIC", "CLASS">>),
      LAMBDA h :
        IF current_token(h.P) = NoToken THEN NullDeref(h.P)
        ELSE Then(eatAll(h.P, <<"MAIN", "LPAREN", "AT", "SELF", "RPAREN", "LBRACE">>),
          LAMBDA o : Then(parseMainBody(o.P, <<>>),
            LAMBDA b : Then(eat(b.P, "RBRACE"),
              LAMBDA e : Ok(e.P, [type |-> "main_definition",
                                  name |-> current_token(h.P).value,
                                  body |-> b.node])))))

this(method, P, argument) ==
    CASE method = "parseExpression" -> parseExpression(P)
      [] method = "parseTerm" -> parseTerm(P)
      [] method = "parseFactor" -> parseFactor(P)
      [] method = "parsePrimaryExpression" -> parsePrimaryExpression(P)
      [] method = "parseArguments" -> parseArguments(P)
      [] method = "parseFunctionCallExpression" -> parseFunctionCallExpression(P, argument)
      [] method = "parseMemberAccess" -> parseMemberAccess(P, argument)
      [] method = "parseNewExpression" -> parseNewExpression(P)
      [] method = "parseInputStatement" -> parseInputStatement(P)
      [] method = "parsePrintStatement" -> parsePrintStatement(P)
      [] method = "parseVariableDeclaration" -> parseVariableDeclaration(P)
      [] method = "parseAssignmentStatement" -> parseAssignmentStatement(P)
      [] method = "parseReturnStatement" -> parseReturnStatement(P)
      [] method = "parseIdentifierStatement" -> parseIdentifierStatement(P, argument)
      [] method = "parseFunctionDefinition" -> parseFunctionDefinition(P, argument)
      [] method = "parseClassFieldDeclaration" -> parseClassFieldDeclaration(P)
      [] method = "parseClassDefinition" -> parseClassDefinition(P)
      [] method = "parseMain" -> parseMain(P)

\* Parser.parse of new Parser(tokens)
parse(toks) == this("parseMain", ParserInit(toks), NoArgument)

-----------------------------------------------------------------------------
(* Interpreter.interpret: two passes over ast.body *)

\* a first pass that registers the functions and leaves the classes to the
\* second pass
hoistStatement_FunctionsOnly(S, statement) ==
    IF statement.type = "function_definition" THEN visitFunctionDefinition(statement, S)
    ELSE Normal(S, Undefined)

\* first pass, one statement: hoisting of functions and classes
hoistStatement(S, statement) ==
    IF statement.type = "function_definition" THEN visitFunctionDefinition(statement, S)
    ELSE IF statement.type = "class_definition" THEN visitClassDefinition(statement, S)
    ELSE Normal(S, Undefined)

\* a second pass that rethrows a FunctionReturn like any other exception
executeStatement_RethrowReturn(S, statement) ==
    IF statement.type \notin {"function_definition", "class_definition"}
    THEN LET r == visit(statement, NoInstance, S) IN
         IF r.ctl = "return"
         THEN [S |-> r.S, ctl |-> "throw",
               value |-> [t |-> "FunctionReturn", n |-> 0, s |-> "Function returned"]]
         ELSE r
    ELSE Normal(S, Undefined)

\* second pass, one statement: try { visit } catch (FunctionReturn) { console.warn }
executeStatement(S, statement) ==
    IF statement.type \notin {"function_definition", "class_definition"}
    THEN LET r == visit(statement, NoInstance, S) IN
         IF r.ctl = "return" THEN Normal(Log(r.S, <<"warn", r.value>>), Undefined)
         ELSE r
    ELSE Normal(S, Undefined)

-----------------------------------------------------------------------------
(* The run of a program: lexed tokens -> Parser.parse -> Interpreter.interpret, *)
(* as PJRT.run_code and the payjar.runCode command do it                     *)

\* no tape machine has been constructed, none is running
NoMachine == [code |-> <<>>, cells |-> <<>>, pointer |-> 0, input |-> <<>>,
              inputPointer |-> 0, output |-> <<>>]
NoRun == [i |-> 0, stack |-> <<>>, matchingBrackets |-> <<>>]
\* no Lexer has been constructed
NoChar == ""
NoLexer == [text |-> <<>>, pos |-> 0, current_char |-> NoChar]
\* the extension host before any command ran: console.log is the original
\* function, no output channel exists, nothing escaped a command
NoHost == [build |-> "source", consoleLog |-> <<"original">>, channels |-> <<>>,
           warnings |-> 0, thrown |-> "none", runs |-> 0]

CurrentState ==
    InterpState(scopes, objects, output, trace, protoValues, functions,
                user_defined_classes)

Commit(S) ==
    /\ scopes' = S.scopes
    /\ objects' = S.objects
    /\ output' = S.output
    /\ trace' = S.trace
    /\ protoValues' = S.protoValues
    /\ functions' = S.functions
    /\ user_defined_classes' = S.user_defined_classes

\* new Interpreter(), nothing printed; at is where the run stands and input
\* what a pure function under check is applied to
StartAt(toks, at, input) ==
    /\ tokens = toks
    /\ phase = at
    /\ ast = NoNode
    /\ pc = 0
    /\ functions = EmptyObject
    /\ user_defined_classes = EmptyObject
    /\ scopes = <<EmptyObject>>
    /\ objects = <<>>
    /\ output = <<>>
    /\ error = NoError
    /\ trace = <<>>
    /\ protoValues = [n \in ObjectPrototypeNames |-> Undefined]
    /\ inp = input
    /\ res = Null
    /\ bf = NoMachine
    /\ bfRun = NoRun
    /\ lexer = NoLexer
    /\ host = NoHost

\* the state a run starts in
RunInit(toks) == StartAt(toks, "parse", Null)

\* parser.parse(); a failure ends the run before an Interpreter exists
ParseStep ==
    /\ phase = "parse"
    /\ LET r == parse(tokens) IN
       IF r.ok
       THEN /\ ast' = r.node
            /\ phase' = "hoist"
            /\ pc' = 1
            /\ error' = error
       ELSE /\ ast' = ast
            /\ phase' = "failed"
            /\ pc' = pc
            /\ error' = r.err
    /\ UNCHANGED <<lexer, host, bf, bfRun, tokens, functions, user_defined_classes, scopes, objects, output,
                   trace, protoValues, inp, res>>

\* the error record of an exception in flight
ErrorOf(r) == [kind |-> r.value.t, message |-> r.value.s]

\* an iteration that, when the statement fails, drops what the statement did
\* before it failed (what it printed included)
PassStep_DiscardOnFailure(r) ==
    /\ Commit(IF r.ctl = "throw" THEN CurrentState ELSE r.S)
    /\ IF r.ctl = "throw"
       THEN phase' = "failed" /\ error' = ErrorOf(r) /\ pc' = pc
       ELSE phase' = phase /\ error' = error /\ pc' = pc + 1
    /\ UNCHANGED <<lexer, host, bf, bfRun, tokens, ast, inp, res>>

\* one iteration of a pass of interpret
PassStep(r) ==
    /\ Commit(r.S)
    /\ IF r.ctl = "throw"
       THEN phase' = "failed" /\ error' = ErrorOf(r) /\ pc' = pc
       ELSE phase' = phase /\ error' = error /\ pc' = pc + 1
    /\ UNCHANGED <<lexer, host, bf, bfRun, tokens, ast, inp, res>>

HoistStep ==
    /\ phase = "hoist"
    /\ pc <= Len(ast.body)
    /\ PassStep(hoistStatement(CurrentState, ast.body[pc]))

HoistEnd ==
    /\ phase = "hoist"
    /\ pc > Len(ast.body)
    /\ phase' = "exec"
    /\ pc' = 1
    /\ UNCHANGED <<lexer, host, bf, bfRun, tokens, ast, functions, user_defined_classes, scopes, objects, output,
                   error, trace, protoValues, inp, res>>

ExecStep ==
    /\ phase = "exec"
    /\ pc <= Len(ast.body)
    /\ PassStep(executeStatement(CurrentState, ast.body[pc]))

ExecEnd ==
    /\ phase = "exec"
    /\ pc > Len(ast.body)
    /\ phase' = "done"
    /\ UNCHANGED <<lexer, host, bf, bfRun, tokens, ast, pc, functions, user_defined_classes, scopes, objects,
                   output, error, trace, protoValues, inp, res>>

Next == ParseStep \/ HoistStep \/ HoistEnd \/ ExecStep \/ ExecEnd

-----------------------------------------------------------------------------
(* Programs, as the token sequences Lexer.tokenize produces for them *)

T_PUBLIC == Token("PUBLIC", "public")
T_CLASS == Token("CLASS", "class")
T_MAIN == Token("MAIN", "main")
T_SELF == Token("SELF", "self")
T_INNERSELF == Token("INNERSELF", "innerSelf")
T_DEF == Token("DEF", "func")
T_PRINT == Token("PRINT", "println")
T_LET == Token("LET", "let")
T_CONST == Token("CONST", "const")
T_VAR == Token("VAR", "var")
T_NEW == Token("NEW", "NEW")
T_RETURN == Token("RETURN", "return")
T_PLUS == Token("PLUS", "+")
T_MINUS == Token("MINUS", "-")
T_DIVIDE == Token("DIVIDE", "/")
T_EQUAL == Token("EQUAL", "=")
T_LPAREN == Token("LPAREN", "(")
T_RPAREN == Token("RPAREN", ")")
T_LBRACE == Token("LBRACE", "{")
T_RBRACE == Token("RBRACE", "}")
T_SEMICOLON == Token("SEMICOLON", ";")
T_AT == Token("AT", "@")
T_COMMA == Token("COMMA", ",")
T_DOT == Token("DOT", ".")
\* the token of an identifier: its type is keywords[id] || 'IDENTIFIER', and for
\* a name every plain object inherits keywords[id] is the inherited function,
\* whose string form stands for it here
Id(name) ==
    Token(IF name \in ObjectPrototypeNames
          THEN "function " \o (IF name = "constructor" THEN "Object" ELSE name)
               \o "() { [native code] }"
          ELSE "IDENTIFIER", name)
Number(chars) == TextToken("NUMBER", chars)
Backtick(chars) == TextToken("BACKTICK_STRING", chars)

RECURSIVE Concat(_)
\* the concatenation of a sequence of token sequences
Concat(ss) == IF ss = <<>> THEN <<>> ELSE Head(ss) \o Concat(Tail(ss))

\* public class main(@self) {
Header == <<T_PUBLIC, T_CLASS, T_MAIN, T_LPAREN, T_AT, T_SELF, T_RPAREN, T_LBRACE>>

\* public class <name>(@innerSelf) { <members> }
ClassTokens(name, members) ==
    <<T_PUBLIC, T_CLASS, Id(name), T_LPAREN, T_AT, T_INNERSELF, T_RPAREN, T_LBRACE>> \o members
    \o <<T_RBRACE>>

\* func <name>(<params>) { <body> }
FuncTokens(name, params, body) ==
    <<T_DEF, Id(name), T_LPAREN>> \o params \o <<T_RPAREN, T_LBRACE>> \o body \o <<T_RBRACE>>

\* <kind> <name> = <digit>;
DeclTokens(kind, name, digit) == <<kind, Id(name), T_EQUAL, Number(<<digit>>), T_SEMICOLON>>
\* <name> = <digit>;
AssignTokens(name, digit) == <<Id(name), T_EQUAL, Number(<<digit>>), T_SEMICOLON>>
\* <obj>.<field> = <digit>;
FieldAssignTokens(obj, field, digit) ==
    <<Id(obj), T_DOT, Id(field), T_EQUAL, Number(<<digit>>), T_SEMICOLON>>
\* println(<name>);
PrintVarTokens(name) == <<T_PRINT, T_LPAREN, Id(name), T_RPAREN, T_SEMICOLON>>
\* println(<obj>.<field>);
PrintFieldTokens(obj, field) ==
    <<T_PRINT, T_LPAREN, Id(obj), T_DOT, Id(field), T_RPAREN, T_SEMICOLON>>
\* <name>();
CallTokens(name) == <<Id(name), T_LPAREN, T_RPAREN, T_SEMICOLON>>

\* the definitions every program of the pool ends with (after its statements):
\*   func f() { let x = 2; h(); println(x); }
\*   func h() { x = 6; }
\*   func k() { const x = 2; println(x); h(); }
\*   public class A(@innerSelf) { let v = 8; const k = 7; let n; const d = 1; let d = 2; }
Definitions ==
    Concat(<<
      FuncTokens("f", <<>>, DeclTokens(T_LET, "x", "2") \o CallTokens("h")
                            \o PrintVarTokens("x")),
      FuncTokens("h", <<>>, AssignTokens("x", "6")),
      FuncTokens("k", <<>>, DeclTokens(T_CONST, "x", "2") \o PrintVarTokens("x")
                            \o CallTokens("h")),
      ClassTokens("A", DeclTokens(T_LET, "v", "8") \o DeclTokens(T_CONST, "k", "7")
                       \o <<T_LET, Id("n"), T_SEMICOLON>>
                       \o DeclTokens(T_CONST, "d", "1") \o DeclTokens(T_LET, "d", "2"))
    >>)

\* the statements a program of the pool is made of
StatementPool ==
    { DeclTokens(T_LET, "x", "1"),
      DeclTokens(T_CONST, "c", "5"),
      AssignTokens("x", "3"),
      AssignTokens("c", "9"),
      <<T_PRINT, T_LPAREN, Backtick(<<"$", "{", "t", "o", "S", "t", "r", "i", "n", "g", "}">>),
        T_RPAREN, T_SEMICOLON>>,
      PrintVarTokens("x"),
      CallTokens("f"),
      CallTokens("h"),
      CallTokens("k"),
      <<T_LET, Id("o"), T_EQUAL, T_NEW, Id("A"), T_LPAREN, T_RPAREN, T_SEMICOLON>>,
      FieldAssignTokens("o", "v", "3"),
      FieldAssignTokens("o", "k", "3"),
      FieldAssignTokens("o", "d", "3"),
      PrintFieldTokens("o", "v") }

\* the most statements a program of the pool has before its definitions
MaxStatements == 3

StatementLists == UNION {[1..n -> StatementPool] : n \in 0..MaxStatements}

Programs == {Header \o Concat(ss) \o Definitions \o <<T_RBRACE>> : ss \in StatementLists}

Init == \E toks \in Programs : RunInit(toks)

Spec == Init /\ [][Next]_vars

-----------------------------------------------------------------------------
(* Properties of the run of a program (Spec) *)

\* the events of the history that are of one kind
EventsOf(what) == {i \in DOMAIN trace : trace[i][1] = what}

\* the top-level definitions of the parsed program, by node type
DefinitionsOf(type) == {i \in DOMAIN ast.body : ast.body[i].type = type}

UndefinedFunctionMessage(name) ==
    "Runtime Error: Call to undefined function or method '" \o name \o "'"
UndefinedClassMessage(name) ==
    "Runtime Error: Attempt to create instance of undefined class '" \o name \o "'"

\* C1 (hoisting order-independence): until pass 1 has gone over the whole
\* top-level body no statement has executed (nothing called, created, bound or
\* printed); once pass 2 runs, every top-level function and class definition
\* of the body, wherever it stands, is the entry of its name in the function
\* or class table; and a run never fails because a function or class the body
\* defines was undefined when called or instantiated.
C1_HoistingOrderIndependence ==
    /\ phase \in {"parse", "hoist"} =>
          trace = <<>> /\ output = <<>> /\ objects = <<>> /\ scopes = <<EmptyObject>>
    /\ phase \in {"exec", "done"} =>
          /\ \A i \in DefinitionsOf("function_definition") :
                /\ ast.body[i].name \in DOMAIN functions
                /\ functions[ast.body[i].name] = ast.body[i]
          /\ \A i \in DefinitionsOf("class_definition") :
                /\ ast.body[i].name \in DOMAIN user_defined_classes
                /\ user_defined_classes[ast.body[i].name] = ast.body[i]
    /\ phase = "failed" /\ ast # NoNode =>
          /\ \A i \in DefinitionsOf("function_definition") :
                error.message # UndefinedFunctionMessage(ast.body[i].name)
          /\ \A i \in DefinitionsOf("class_definition") :
                error.message # UndefinedClassMessage(ast.body[i].name)

\* a finished run whose first statement called f and which created an A, both
\* defined after every statement of the body
C1_Witness ==
    /\ phase = "done"
    /\ ast.body[1].type = "function_call" /\ ast.body[1].name = "f"
    /\ \E i \in EventsOf("call") : trace[i][2] = "f"
    /\ \E i \in EventsOf("new") : trace[i][2] = "A"
    /\ objects # <<>>
    /\ \A i \in DefinitionsOf("function_definition") \cup DefinitionsOf("class_definition") :
          i > 2

\* the fields of a declaration or assignment event of the history
EvName(e) == e[2]
EvKind(e) == e[3]
EvBefore(e) == e[4]
EvCtl(e) == e[5]
EvValue(e) == e[6]
EvAfter(e) == e[7]

Innermost(sc) == sc[Len(sc)]
BoundOutside(sc, name) == \E j \in 1..(Len(sc) - 1) : name \in DOMAIN sc[j]

RedeclarationMessage(name) ==
    "Runtime Error: Redeclaration of variable '" \o name \o "' is not allowed in this scope."

\* C2 (redeclaration): every declaration the run has executed (a) failed with
\* the redeclaration error, changing no scope, if the innermost scope already
\* held a binding of its name, and (b) if executed in a call scope whose name
\* was bound only in outer scopes, succeeded, added the binding (value and
\* kind) to the innermost scope and left every outer scope as it was.
C2_Redeclaration ==
    \A i \in EventsOf("declare") :
       LET e == trace[i] IN
       /\ EvName(e) \in DOMAIN Innermost(EvBefore(e)) =>
             /\ EvCtl(e) = "throw"
             /\ EvValue(e).s = RedeclarationMessage(EvName(e))
             /\ EvAfter(e) = EvBefore(e)
       /\ ( /\ Len(EvBefore(e)) >= 2
            /\ EvName(e) \notin DOMAIN Innermost(EvBefore(e))
            /\ BoundOutside(EvBefore(e), EvName(e)) ) =>
             /\ EvCtl(e) = "normal"
             /\ Len(EvAfter(e)) = Len(EvBefore(e))
             /\ \A j \in 1..(Len(EvBefore(e)) - 1) : EvAfter(e)[j] = EvBefore(e)[j]
             /\ DOMAIN Innermost(EvAfter(e)) = DOMAIN Innermost(EvBefore(e)) \cup {EvName(e)}
             /\ Innermost(EvAfter(e))[EvName(e)] = [value |-> EvValue(e), kind |-> EvKind(e)]
             /\ \A n \in DOMAIN Innermost(EvBefore(e)) :
                   Innermost(EvAfter(e))[n] = Innermost(EvBefore(e))[n]

\* a run in which a declaration of x in a call scope shadowed the global x, and
\* a later declaration of x in the global scope failed as a redeclaration
C2_Witness ==
    /\ \E i \in EventsOf("declare") :
          /\ Len(EvBefore(trace[i])) >= 2
          /\ BoundOutside(EvBefore(trace[i]), EvName(trace[i]))
          /\ EvCtl(trace[i]) = "normal"
    /\ \E i \in EventsOf("declare") :
          /\ EvName(trace[i]) \in DOMAIN Innermost(EvBefore(trace[i]))
          /\ EvCtl(trace[i]) = "throw"
    /\ phase = "failed"
    /\ error.message = RedeclarationMessage("x")


\* the value of a field declaration's initializer (a literal), null without one
FieldInitialValue(fd) == IF fd.value = NoNode THEN Null ELSE fd.value.value

\* the field declarations of the class of instance obj
DeclaredFields(obj) == user_defined_classes[obj.class_name].fields

\* the top-level statement about to execute assigns to member f of a variable
\* that holds an instance whose class declares a field f as const
AssignsToConstField ==
    /\ phase = "exec" /\ pc <= Len(ast.body)
    /\ ast.body[pc].type = "member_assignment"
    /\ ast.body[pc].object.type = "variable_access"
    /\ ast.body[pc].object.name \in DOMAIN scopes[1]
    /\ IsObj(scopes[1][ast.body[pc].object.name].value)
    /\ \E j \in DOMAIN DeclaredFields(objects[scopes[1][ast.body[pc].object.name].value.n]) :
          LET fd == DeclaredFields(objects[scopes[1][ast.body[pc].object.name].value.n])[j]
          IN fd.kind = "CONST" /\ fd.name = ast.body[pc].member

\* C4 (construction and field semantics): every step that creates an instance
\* of a class without init leaves each declared field of the new instance
\* holding the value of its initializer (null without one); and every member
\* assignment to a field declared const fails and leaves the instances as they
\* were.
C4_ConstructionAndFields ==
    [][ /\ \A i \in (Len(objects) + 1)..Len(objects') :
              user_defined_classes[objects'[i].class_name].ctor = NoNode =>
                 \A j \in DOMAIN DeclaredFields(objects'[i]) :
                    LET fd == DeclaredFields(objects'[i])[j] IN
                    /\ fd.name \in DOMAIN objects'[i].fields
                    /\ objects'[i].fields[fd.name].value = FieldInitialValue(fd)
        /\ AssignsToConstField => phase' = "failed" /\ objects' = objects
      ]_vars

\* s is t or the beginning of t
IsPrefix(s, t) == Len(s) <= Len(t) /\ SubSeq(t, 1, Len(s)) = s

RECURSIVE PrintedValues(_)
\* the values of the print events of a history, in order
PrintedValues(tr) ==
    IF tr = <<>> THEN <<>>
    ELSE (IF Head(tr)[1] = "print" THEN <<Head(tr)[2]>> ELSE <<>>) \o PrintedValues(Tail(tr))

\* the run failed while executing the top-level call of function name
FailedInCallOf(name) ==
    /\ phase = "failed" /\ ast # NoNode
    /\ ast.body[pc].type = "function_call" /\ ast.body[pc].name = name

\* C8 (partial output on runtime failure): at every point of a run the output
\* is exactly the values printed by the print statements executed so far, in
\* execution order; every step only appends to it (nothing printed earlier is
\* lost or reordered); a statement that prints and then fails (k prints 2 and
\* fails in h) leaves what it printed in the output; and once the run has
\* failed no further step is taken, so nothing after the failure point
\* executes or prints.
C8_PartialOutput ==
    /\ [](/\ output = PrintedValues(trace)
          /\ FailedInCallOf("k") => output # <<>> /\ output[Len(output)] = Num(2))
    /\ [][/\ IsPrefix(output, output')
          /\ IsPrefix(trace, trace')
          /\ phase # "failed"]_vars

\* f(); k(); println(x); has failed in k: f's 6 and k's 2 are in the output,
\* the print statement after the failing call has not run
C8_Witness ==
    /\ FailedInCallOf("k")
    /\ pc = 2
    /\ ast.body[1].type = "function_call" /\ ast.body[1].name = "f"
    /\ ast.body[3].type = "print_statement"
    /\ output = <<Num(6), Num(2)>>
    /\ ~ENABLED Next

\* the innermost scope of sc that binds name, 0 when none does
BindingScope(sc, name) ==
    IF \E j \in DOMAIN sc : name \in DOMAIN sc[j]
    THEN CHOOSE j \in DOMAIN sc :
            /\ name \in DOMAIN sc[j]
            /\ \A k \in DOMAIN sc : name \in DOMAIN sc[k] => k <= j
    ELSE 0

\* C9 (CONST bindings are immutable): a global CONST binding holds the value
\* it was declared with in every state after its declaration; and every plain
\* assignment x = v the run has executed failed, changing no binding, when the
\* innermost binding of x over the whole scope stack was CONST or when no
\* scope bound x, and otherwise succeeded and changed the value of that one
\* binding only.
C9_ConstImmutable ==
    /\ \A i \in EventsOf("declare") :
          LET e == trace[i] IN
          EvKind(e) = "CONST" /\ EvCtl(e) = "normal" /\ Len(EvBefore(e)) = 1 =>
             /\ EvName(e) \in DOMAIN scopes[1]
             /\ scopes[1][EvName(e)] = [value |-> EvValue(e), kind |-> "CONST"]
    /\ \A i \in EventsOf("assign") :
          LET e == trace[i]
              target == BindingScope(EvBefore(e), EvName(e))
          IN IF target = 0
             THEN EvCtl(e) = "throw" /\ EvAfter(e) = EvBefore(e)
             ELSE IF EvBefore(e)[target][EvName(e)].kind = "CONST"
             THEN EvCtl(e) = "throw" /\ EvAfter(e) = EvBefore(e)
             ELSE /\ EvCtl(e) = "normal"
                  /\ EvAfter(e) = [EvBefore(e) EXCEPT ![target][EvName(e)].value = EvValue(e)]

\* f(); const c = 5; c = 9; has failed at the assignment to c, which still
\* holds 5; before that, h's assignment x = 6 inside f changed f's x
C9_Witness ==
    /\ phase = "failed"
    /\ error.message = "Runtime Error: Cannot assign to a constant variable 'c'."
    /\ scopes[1]["c"] = [value |-> Num(5), kind |-> "CONST"]
    /\ \E i \in EventsOf("assign") :
          /\ EvCtl(trace[i]) = "normal"
          /\ BindingScope(EvBefore(trace[i]), EvName(trace[i])) >= 2
    /\ \E i \in EventsOf("assign") :
          /\ EvCtl(trace[i]) = "throw"
          /\ EvBefore(trace[i])[1]["c"].kind = "CONST"

-----------------------------------------------------------------------------
(* The binary operators on their own (SpecOps): visitBinaryOp applied to two *)
(* literal operands                                                         *)

\* the largest absolute value of a numeric operand
MaxOperand == 8

Operators == {"+", "-", "*", "/", "%", "==", "!=", "<", ">", "<=", ">="}
LeftOperands == {Num(n) : n \in (0 - MaxOperand)..MaxOperand} \cup {Str("s"), Null}
RightOperands == {Num(n) : n \in (0 - MaxOperand)..MaxOperand} \cup {Str("s")}

LiteralNode(v) == [type |-> "literal", value |-> v]

OpsInit ==
    \E operator \in Operators, left \in LeftOperands, right \in RightOperands :
       StartAt(<<>>, "operands", [operator |-> operator, left |-> left, right |-> right])

\* visit of the binary_op node `left operator right`
EvalBinaryOp ==
    /\ phase = "operands"
    /\ LET r == visit(BinaryOpNode(inp.operator, LiteralNode(inp.left),
                                   LiteralNode(inp.right)), NoInstance, CurrentState)
       IN res' = [ctl |-> r.ctl, value |-> r.value]
    /\ phase' = "evaluated"
    /\ UNCHANGED <<lexer, host, bf, bfRun, tokens, ast, pc, functions, user_defined_classes, scopes, objects,
                   output, error, trace, protoValues, inp>>

NextOps == EvalBinaryOp

SpecOps == OpsInit /\ [][NextOps]_vars

\* q is a / b rounded toward zero
IsTruncatedQuotient(a, b, q) ==
    /\ Abs(q) * Abs(b) <= Abs(a)
    /\ Abs(a) < (Abs(q) + 1) * Abs(b)
    /\ q > 0 => (a < 0) = (b < 0)
    /\ q < 0 => (a < 0) # (b < 0)

\* C3 (integer division truncates): for integers a and b # 0, a / b evaluates
\* to the quotient rounded toward zero; whatever the left operand, a / 0 fails
\* with the division-by-zero error and a % 0 with the modulo-by-zero error,
\* and neither yields a value.
C3_IntegerDivisionTruncates ==
    phase = "evaluated" =>
       /\ ( /\ inp.operator = "/" /\ IsNum(inp.left) /\ IsNum(inp.right)
            /\ inp.right.n # 0 ) =>
             /\ res.ctl = "normal"
             /\ IsNum(res.value)
             /\ IsTruncatedQuotient(inp.left.n, inp.right.n, res.value.n)
       /\ inp.operator = "/" /\ inp.right = Num(0) =>
             /\ res.ctl = "throw"
             /\ res.value = [t |-> "Error", n |-> 0, s |-> "Runtime Error: Division by zero."]
       /\ inp.operator = "%" /\ inp.right = Num(0) =>
             /\ res.ctl = "throw"
             /\ res.value = [t |-> "Error", n |-> 0, s |-> "Runtime Error: Modulo by zero."]

\* -7 / 2 has evaluated to -3 (and not to -4)
C3_Witness ==
    /\ phase = "evaluated"
    /\ inp = [operator |-> "/", left |-> Num(0 - 7), right |-> Num(2)]
    /\ res = [ctl |-> "normal", value |-> Num(0 - 3)]

-----------------------------------------------------------------------------
(* Template strings on their own (SpecTemplate): the text of a backtick     *)
(* token is parsed by parsePrimaryExpression and the node evaluated by      *)
(* visit, with x and a bound                                                *)

\* the longest template text
MaxTemplateLen == 6

TemplateAlphabet == {"a", "x", "$", "{", "}"}
TemplateTexts == UNION {[1..n -> TemplateAlphabet] : n \in 0..MaxTemplateLen}

\* the variables a template is evaluated with
TemplateValue(name) == IF name = "x" THEN Num(1) ELSE Str("A")
TemplateNames == {"x", "a"}

TemplateInit == \E cs \in TemplateTexts : StartAt(<<Backtick(cs)>>, "template", cs)

ParseTemplateStep ==
    /\ phase = "template"
    /\ LET r == this("parsePrimaryExpression", ParserInit(tokens), NoArgument) IN
       /\ ast' = r.node
       /\ phase' = IF r.ok THEN "parsed" ELSE "failed"
       /\ error' = IF r.ok THEN error ELSE r.err
    /\ UNCHANGED <<lexer, host, bf, bfRun, tokens, pc, functions, user_defined_classes, scopes, objects, output,
                   trace, protoValues, inp, res>>

EvalTemplateStep ==
    /\ phase = "parsed"
    /\ LET S == DeclareInCurrent(DeclareInCurrent(CurrentState, "x", TemplateValue("x"), "LET"),
                                 "a", TemplateValue("a"), "LET")
           r == visit(ast, NoInstance, S)
       IN /\ res' = [ctl |-> r.ctl, value |-> r.value]
          /\ scopes' = r.S.scopes
    /\ phase' = "interpolated"
    /\ UNCHANGED <<lexer, host, bf, bfRun, tokens, ast, pc, functions, user_defined_classes, objects, output,
                   error, trace, protoValues, inp>>

NextTemplate == ParseTemplateStep \/ EvalTemplateStep

SpecTemplate == TemplateInit /\ [][NextTemplate]_vars

RECURSIVE SplicesBound(_, _)
\* every ${identifier} of cs from index i on names a bound variable
SplicesBound(cs, i) ==
    IF i > Len(cs) THEN TRUE
    ELSE IF SpliceAt(cs, i) > 0
    THEN /\ Join(SubSeq(cs, i + 2, i + SpliceAt(cs, i) - 2)) \in TemplateNames
         /\ SplicesBound(cs, i + SpliceAt(cs, i))
    ELSE SplicesBound(cs, i + 1)

RECURSIVE Interpolated(_, _)
\* cs from index i on, each ${identifier} replaced by the string form of the
\* identifier's value and every other character kept
Interpolated(cs, i) ==
    IF i > Len(cs) THEN ""
    ELSE IF SpliceAt(cs, i) > 0
    THEN JsToString(CurrentState,
                    TemplateValue(Join(SubSeq(cs, i + 2, i + SpliceAt(cs, i) - 2))), 1).s
         \o Interpolated(cs, i + SpliceAt(cs, i))
    ELSE cs[i] \o Interpolated(cs, i + 1)

\* C5 (template interpolation): a template whose ${identifier} splices all
\* name bound variables evaluates to its text with each splice replaced by
\* the string form of the variable's value and every literal segment (before,
\* between and after the splices) kept, in source order.
C5_TemplateInterpolation ==
    phase = "interpolated" /\ SplicesBound(inp, 1) =>
       /\ res.ctl = "normal"
       /\ res.value = Str(Interpolated(inp, 1))

-----------------------------------------------------------------------------
(* The parser's verdicts (SpecParse): runs of programs with `self` in and   *)
(* out of parameter lists and method bodies, and of token sequences that    *)
(* are no programs                                                          *)

\* the most parameters of a function of the pool
MaxParams == 2

ParamNames == {"self", "a"}
ParamLists == UNION {[1..n -> ParamNames] : n \in 0..MaxParams}

RECURSIVE ParamTokens(_)
\* <name>, <name>, ...
ParamTokens(ps) ==
    IF ps = <<>> THEN <<>>
    ELSE <<IF Head(ps) = "self" THEN T_SELF ELSE Id(Head(ps))>>
         \o (IF Tail(ps) = <<>> THEN <<>> ELSE <<T_COMMA>> \o ParamTokens(Tail(ps)))

\* println(<digit>);
PrintNumberTokens(digit) == <<T_PRINT, T_LPAREN, Number(<<digit>>), T_RPAREN, T_SEMICOLON>>
\* let <name> = NEW <class>();
NewTokens(name, class) ==
    <<T_LET, Id(name), T_EQUAL, T_NEW, Id(class), T_LPAREN, T_RPAREN, T_SEMICOLON>>

\* public class main(@self) { println(1); func g(<ps>) { } }
FreeFunctionProgram(ps) ==
    Header \o PrintNumberTokens("1") \o FuncTokens("g", ParamTokens(ps), <<>>) \o <<T_RBRACE>>

\* public class main(@self) { println(1); [let o = NEW B();] println(2);
\*   public class B(@innerSelf) { func init(<ps>) { } } }
InitProgram(ps, construct) ==
    Header \o PrintNumberTokens("1")
    \o (IF construct THEN NewTokens("o", "B") ELSE <<>>)
    \o PrintNumberTokens("2")
    \o ClassTokens("B", FuncTokens("init", ParamTokens(ps), <<>>)) \o <<T_RBRACE>>

\* statements of a method body that go through self:
\*   println(self.v);   self.v = 3;   self.n();   let y = self.v;
SelfBodies ==
    { <<T_PRINT, T_LPAREN, T_SELF, T_DOT, Id("v"), T_RPAREN, T_SEMICOLON>>,
      <<T_SELF, T_DOT, Id("v"), T_EQUAL, Number(<<"3">>), T_SEMICOLON>>,
      <<T_SELF, T_DOT, Id("n"), T_LPAREN, T_RPAREN, T_SEMICOLON>>,
      <<T_LET, Id("y"), T_EQUAL, T_SELF, T_DOT, Id("v"), T_SEMICOLON>> }

\* public class main(@self) { let o = NEW S(); o.m();
\*   public class S(@innerSelf) { let v = 8; func m(self) { <body> } func n(self) { } } }
MethodProgram(body) ==
    Header \o NewTokens("o", "S")
    \o <<Id("o"), T_DOT, Id("m"), T_LPAREN, T_RPAREN, T_SEMICOLON>>
    \o ClassTokens("S", DeclTokens(T_LET, "v", "8")
                        \o FuncTokens("m", <<T_SELF>>, body)
                        \o FuncTokens("n", <<T_SELF>>, <<>>))
    \o <<T_RBRACE>>

SelfAccessPrograms == {MethodProgram(body) : body \in SelfBodies}

\* public class main(@self) { let x = 1; println(x); f(x);
\*   func f(a) { return a; }
\*   public class A(@innerSelf) { let v = 1; func m(self) { } } }
Sample ==
    Header \o DeclTokens(T_LET, "x", "1") \o PrintVarTokens("x")
    \o <<Id("f"), T_LPAREN, Id("x"), T_RPAREN, T_SEMICOLON>>
    \o FuncTokens("f", <<Id("a")>>, <<T_RETURN, Id("a"), T_SEMICOLON>>)
    \o ClassTokens("A", DeclTokens(T_LET, "v", "1") \o FuncTokens("m", <<T_SELF>>, <<>>))
    \o <<T_RBRACE>>

\* the sample cut short after any number of tokens
Truncations == {SubSeq(Sample, 1, n) : n \in 0..Len(Sample)}
\* the sample with one token replaced by a comma
Substitutions == {[Sample EXCEPT ![i] = T_COMMA] : i \in 1..Len(Sample)}

\* public class <name> main(@self) { println(1); }
NamedHeaderProgram(name) ==
    <<T_PUBLIC, T_CLASS, Id(name), T_MAIN, T_LPAREN, T_AT, T_SELF, T_RPAREN, T_LBRACE>>
    \o PrintNumberTokens("1") \o <<T_RBRACE>>
\* public class Main(@self) { println(1); }, the header of the sample program
\* in the comment that closes the interpreter's source
CapitalMainProgram ==
    <<T_PUBLIC, T_CLASS, Id("Main"), T_LPAREN, T_AT, T_SELF, T_RPAREN, T_LBRACE>>
    \o PrintNumberTokens("1") \o <<T_RBRACE>>
\* public class main(@self) { println(1); }
PlainHeaderProgram == Header \o PrintNumberTokens("1") \o <<T_RBRACE>>

HeaderPrograms ==
    {NamedHeaderProgram("P"), NamedHeaderProgram("Main"), CapitalMainProgram,
     PlainHeaderProgram}

\* public class main(@self) { println(1);
\*   public class B(@innerSelf) { func m(<ps>) { } } }
MethodParamProgram(ps) ==
    Header \o PrintNumberTokens("1")
    \o ClassTokens("B", FuncTokens("m", ParamTokens(ps), <<>>)) \o <<T_RBRACE>>

\* one statement of each form the parser accepts directly in the program body:
\*   println(1);  let x = 1;  func g() { }  public class A(@innerSelf) { }
\*   class A(@innerSelf) { }  x = 1;  o.v = 1;  o.m();  g();
DefinitionForms ==
    { FuncTokens("g", <<>>, <<>>),
      ClassTokens("A", <<>>),
      Tail(ClassTokens("A", <<>>)) }
SimpleForms ==
    { PrintNumberTokens("1"),
      DeclTokens(T_LET, "x", "1"),
      AssignTokens("x", "1"),
      FieldAssignTokens("o", "v", "1"),
      <<Id("o"), T_DOT, Id("m"), T_LPAREN, T_RPAREN, T_SEMICOLON>>,
      CallTokens("g") }
ProgramBodyForms == DefinitionForms \cup SimpleForms
\* return 1;
ReturnForm == <<T_RETURN, Number(<<"1">>), T_SEMICOLON>>

\* public class main(@self) { <statement> }
InProgramBody(statement) == Header \o statement \o <<T_RBRACE>>
\* public class main(@self) { func w() { <statement> } }
InFunctionBody(statement) == Header \o FuncTokens("w", <<>>, statement) \o <<T_RBRACE>>

FormPrograms ==
    {InProgramBody(st) : st \in ProgramBodyForms \cup {ReturnForm}}
    \cup {InFunctionBody(st) : st \in ProgramBodyForms \cup {ReturnForm}}

ParsePrograms ==
    HeaderPrograms \cup {MethodParamProgram(ps) : ps \in ParamLists} \cup FormPrograms \cup
    {FreeFunctionProgram(ps) : ps \in ParamLists}
    \cup {InitProgram(ps, construct) : ps \in ParamLists, construct \in BOOLEAN}
    \cup SelfAccessPrograms
    \cup {MethodProgram(PrintNumberTokens("1"))}
    \cup {Header \o AssignTokens("toString", "5") \o <<T_RBRACE>>}
    \cup Truncations \cup Substitutions

ParseInit == \E toks \in ParsePrograms : RunInit(toks)

SpecParse == ParseInit /\ [][Next]_vars

Range(seq) == {seq[i] : i \in DOMAIN seq}

\* the run ended in Parser.parse
ParseFailed == phase = "failed" /\ ast = NoNode
\* nothing of the program has been interpreted
NothingInterpreted ==
    /\ trace = <<>> /\ output = <<>> /\ objects = <<>> /\ scopes = <<EmptyObject>>
    /\ functions = EmptyObject /\ user_defined_classes = EmptyObject

ConstructorMessage(class) ==
    "Runtime Error: Constructor 'init' for class '" \o class
    \o "' must have 'self' as its first parameter."

\* what C6 says of the programs whose free function g has a parameter list
\* with `self` in it
FreeSelfRejected ==
    tokens \in {FreeFunctionProgram(ps) : ps \in {q \in ParamLists : "self" \in Range(q)}} =>
       /\ phase \in {"parse", "failed"}
       /\ NothingInterpreted
       /\ phase = "failed" => ParseFailed

\* what C6 says of the programs whose init has the parameter list ps: the
\* parser accepts them; the run fails only if it constructs a B, at that
\* statement, with the constructor error
InitRejectedAtConstruction(ps) ==
    /\ tokens \in {InitProgram(ps, c) : c \in BOOLEAN} =>
          /\ ~ParseFailed
          /\ phase = "failed" =>
                /\ error = [kind |-> "Error", message |-> ConstructorMessage("B")]
                /\ ast.body[pc].type = "variable_declaration"
                /\ ast.body[pc].value.type = "object_creation"
                /\ output = <<Num(1)>>
    /\ tokens = InitProgram(ps, FALSE) => phase # "failed"
    /\ tokens = InitProgram(ps, TRUE) => phase # "done"

\* C6 (parse-time rejection), as amended: a free function with `self`
\* anywhere in its parameter list is rejected by the parser and nothing of the
\* program is interpreted; an init whose parameter list holds no `self` at all
\* (the empty list included) is accepted by the parser and rejected only when
\* an instance of its class is constructed.
C6_ParseTimeRejection ==
    /\ FreeSelfRejected
    /\ \A ps \in {q \in ParamLists : "self" \notin Range(q)} : InitRejectedAtConstruction(ps)

\* the run of a program that constructs a B whose init(a) lacks self: parsed,
\* println(1) executed, failed at the construction
C6_Witness ==
    /\ tokens = InitProgram(<<"a">>, TRUE)
    /\ phase = "failed"
    /\ error.message = ConstructorMessage("B")
    /\ output = <<Num(1)>>

\* C6 as claimed: the same, for every init whose first parameter is not
\* `self` (the empty list included), whatever follows the first parameter.
C6_AsClaimed ==
    /\ FreeSelfRejected
    /\ \A ps \in {q \in ParamLists : q = <<>> \/ q[1] # "self"} :
          InitRejectedAtConstruction(ps)

\* C7 (method-local self access): a program whose method body reads a field
\* as self.v, assigns one as self.v = 3;, or calls a method as self.n(), and
\* which invokes that method on an instance, is accepted by the parser and
\* runs to its end, the method operating on the receiving instance.
C7_MethodLocalSelf ==
    tokens \in SelfAccessPrograms =>
       /\ ~ParseFailed
       /\ phase # "failed"
       /\ phase = "done" => \E i \in EventsOf("call") : trace[i][2] = "m"

\* the token types (TokenType)
TokenTypes ==
    {"PUBLIC", "PRIVATE", "CLASS", "MAIN", "SELF", "INNERSELF", "DEF", "PRINT", "PASS",
     "LET", "CONST", "VAR", "NEW", "READLN", "RETURN", "IDENTIFIER", "STRING_LITERAL",
     "NUMBER", "BACKTICK_STRING", "PLUS", "MINUS", "MULTIPLY", "DIVIDE", "MODULO",
     "EQUAL_EQUAL", "NOT_EQUAL", "LESS_THAN", "GREATER_THAN", "LESS_EQUAL",
     "GREATER_EQUAL", "EQUAL", "LPAREN", "RPAREN", "LBRACE", "RBRACE", "COLON",
     "SEMICOLON", "AT", "COMMA", "DOT", "EOF"}

\* Syntax Error: Expected <expected>, but got <actual kind | EOF>. Index: <index>
\* for the token at the 0-based index of the run's token sequence
MismatchMessage(expected, index) ==
    "Syntax Error: Expected " \o expected \o ", but got "
    \o (IF index < Len(tokens) THEN tokens[index + 1].type ELSE "EOF")
    \o ". Index: " \o NumberToString(index)

\* C10 (parser error policy): whenever Parser.parse fails, it fails with an
\* Error whose message is `Syntax Error: Expected <EXPECTED_KIND>, but got
\* <ACTUAL_KIND|EOF>. Index: <tokenIndex>` for the kind expected at, and the
\* kind and index of, the offending token (EOF when the tokens are
\* exhausted); parsing fails in no other way.
C10_ParserErrorPolicy ==
    ParseFailed =>
       /\ error.kind = "Error"
       /\ \E expected \in TokenTypes, index \in 0..Len(tokens) :
             /\ error.message = MismatchMessage(expected, index)
             /\ index = Len(tokens) \/ tokens[index + 1].type # expected

\* public class IDENT main ( @ self ) { ... }
HasNamedHeader(toks) ==
    /\ Len(toks) >= 10
    /\ toks[1].type = "PUBLIC" /\ toks[2].type = "CLASS"
    /\ toks[3].type = "IDENTIFIER" /\ toks[4].type = "MAIN"
    /\ toks[5].type = "LPAREN" /\ toks[6].type = "AT" /\ toks[7].type = "SELF"
    /\ toks[8].type = "RPAREN" /\ toks[9].type = "LBRACE"
    /\ toks[Len(toks)].type = "RBRACE"

\* C11 (program header grammar): Parser.parse accepts a token sequence as a
\* program only when it has the form public class IDENT main ( @ self )
\* { stmt* }: an identifier is required between `class` and `main`, and it
\* becomes the name of the program node; a program of that form whose body is
\* a valid statement is accepted.
C11_HeaderGrammar ==
    /\ ast # NoNode => HasNamedHeader(tokens) /\ ast.name = tokens[3].value
    /\ tokens \in {NamedHeaderProgram("P"), NamedHeaderProgram("Main")} => ~ParseFailed

\* what the parser does with the headers: the one without a name is accepted
\* and named "main", the ones with a name fail at the name
HeaderAsParsed ==
    /\ tokens = PlainHeaderProgram /\ phase # "parse"
          => ast # NoNode /\ ast.name = "main"
    /\ tokens \in HeaderPrograms \ {PlainHeaderProgram} /\ phase # "parse"
          => /\ ParseFailed
             /\ error.message = MismatchMessage("MAIN", 2)

-----------------------------------------------------------------------------
(* Interpreter.interpret applied to a program node handed to it directly.    *)
(* The parser has no return statement at the top level of a program, so a    *)
(* FunctionReturn reaches interpret's second pass only for such a node.      *)

ReturnNode(e) == [type |-> "return_statement", expression |-> e]
PrintNode(e) == [type |-> "print_statement", expression |-> e]
NumberNode(n) == [type |-> "literal", value |-> Num(n), data_type |-> "number"]
AccessNode(name) == [type |-> "variable_access", name |-> name]
CallNode(name) == [type |-> "function_call", name |-> name, arguments |-> <<>>]
\* func g() { return 2; println(3); }
FunctionNode ==
    [type |-> "function_definition", name |-> "g", parameters |-> <<>>,
     body |-> <<ReturnNode(NumberNode(2)), PrintNode(NumberNode(3))>>, is_method |-> FALSE]

\* top-level statements: return 7;  return u;  println(1);  println(u);  g();
\* and the definition of g (u is bound nowhere)
NodePool ==
    {ReturnNode(NumberNode(7)), ReturnNode(AccessNode("u")), PrintNode(NumberNode(1)),
     PrintNode(AccessNode("u")), CallNode("g"), FunctionNode}

\* the most statements of a program node
MaxNodes == 3

NodeLists == UNION {[1..n -> NodePool] : n \in 0..MaxNodes}

\* new Interpreter().interpret({type: "main_definition", name, body})
InterpretInit ==
    \E body \in NodeLists :
       /\ tokens = <<>>
       /\ phase = "hoist"
       /\ ast = [type |-> "main_definition", name |-> "main", body |-> body]
       /\ pc = 1
       /\ functions = EmptyObject
       /\ user_defined_classes = EmptyObject
       /\ scopes = <<EmptyObject>>
       /\ objects = <<>>
       /\ output = <<>>
       /\ error = NoError
       /\ trace = <<>>
       /\ protoValues = [n \in ObjectPrototypeNames |-> Undefined]
       /\ inp = Null
       /\ res = Null
       /\ bf = NoMachine
       /\ bfRun = NoRun
       /\ lexer = NoLexer
       /\ host = NoHost

NextInterpret == HoistStep \/ HoistEnd \/ ExecStep \/ ExecEnd

SpecInterpret == InterpretInit /\ [][NextInterpret]_vars

\* a top-level return whose expression evaluates
IsStrayReturn(st) == st.type = "return_statement" /\ st.expression.type = "literal"
IsDefinition(st) == st.type \in {"function_definition", "class_definition"}
\* the statements of the program node that cannot fail
CannotFail(st) ==
    \/ IsDefinition(st) \/ IsStrayReturn(st)
    \/ st.type = "print_statement" /\ st.expression.type = "literal"
    \/ st = CallNode("g") /\ FunctionNode \in Range(ast.body)

\* C12 (stray top-level return): when a return escapes a top-level statement
\* with no enclosing call, interpret does not fail: it reports a warning with
\* the returned value, abandons only that statement and goes on to the next
\* top-level statement; any other failure of a top-level statement ends the
\* run at that statement with its error, and a finished run has gone through
\* every statement.
C12_StrayReturn ==
    /\ [](phase = "done" => pc = Len(ast.body) + 1)
    /\ [][ phase = "exec" /\ pc <= Len(ast.body) =>
            /\ IsStrayReturn(ast.body[pc]) =>
                  /\ phase' = "exec" /\ pc' = pc + 1 /\ error' = error
                  /\ trace' = Append(trace, <<"warn", ast.body[pc].expression.value>>)
                  /\ output' = output /\ scopes' = scopes
            /\ phase' = "exec" => pc' = pc + 1
            /\ phase' = "failed" =>
                  /\ pc' = pc /\ error'.kind = "Error"
                  /\ ~CannotFail(ast.body[pc]) ]_vars

\* return 7; println(1); has run to its end: the warning, then the print
C12_Witness ==
    /\ phase = "done"
    /\ ast.body = <<ReturnNode(NumberNode(7)), PrintNode(NumberNode(1))>>
    /\ trace = <<<<"warn", Num(7)>>, <<"print", Num(1)>>>>
    /\ output = <<Num(1)>>

-----------------------------------------------------------------------------
(* The tape machine: BrainfuckInterpreter.  Characters are one-character     *)
(* strings in the command text and character codes (UTF-16 code units) in    *)
(* the input, the cells and the output.  Positions are 0-based as in the     *)
(* source; cells[pointer + 1] is this.cells[this.pointer].                   *)

CommandAlphabet == {">", "<", "+", "-", ".", ",", "[", "]"}

\* code.replace(/[^\[\]<>+\-.,]/g, '')
StripNonCommands(text) == SelectSeq(text, LAMBDA c : c \in CommandAlphabet)

\* new BrainfuckInterpreter(code, input, cellCount)
NewMachine(text, input, cellCount) ==
    [code |-> StripNonCommands(text), cells |-> [k \in 1..cellCount |-> 0], pointer |-> 0,
     input |-> input, inputPointer |-> 0, output |-> <<>>]

UnmatchedMessage(bracket, position) ==
    "Syntax Error: Unmatched '" \o bracket \o "' at position " \o NumberToString(position)

\* what an iteration of a loop leaves: the locals, and the error thrown if any
Scanned(stack, map) == [stack |-> stack, map |-> map, message |-> ""]

\* an iteration that pairs ] with the oldest open [ instead of the newest
buildBracketMapIteration_OldestOpen(code, i, stack, map) ==
    IF code[i + 1] = "[" THEN Scanned(Append(stack, i), map)
    ELSE IF code[i + 1] = "]"
    THEN IF stack = <<>>
         THEN [stack |-> stack, map |-> map, message |-> UnmatchedMessage("]", i)]
         ELSE Scanned(Tail(stack), Put(Put(map, Head(stack), i), i, Head(stack)))
    ELSE Scanned(stack, map)

\* buildBracketMap: one iteration of for (let i = 0; i < code.length; i++)
buildBracketMapIteration(code, i, stack, map) ==
    LET chr == code[i + 1] IN
    IF chr = "[" THEN Scanned(Append(stack, i), map)
    ELSE IF chr = "]"
    THEN IF stack = <<>>
         THEN [stack |-> stack, map |-> map, message |-> UnmatchedMessage("]", i)]
         ELSE LET start == stack[Len(stack)] IN
              Scanned(SubSeq(stack, 1, Len(stack) - 1), Put(Put(map, start, i), i, start))
    ELSE Scanned(stack, map)

\* buildBracketMap: if (stack.length > 0) throw ...; return map
buildBracketMapEnd(stack, map) ==
    IF Len(stack) > 0
    THEN [stack |-> stack, map |-> map, message |-> UnmatchedMessage("[", stack[Len(stack)])]
    ELSE Scanned(stack, map)

\* the longest tape and the longest output a run is followed to
MaxTapeLen == 3
MaxOutputLen == 4

\* case '>' without the growth of the tape
MoveRight_NoGrowth(m) == [m EXCEPT !.pointer = @ + 1]
\* case '>': this.pointer++; if (this.pointer >= this.cells.length) this.cells.push(0)
MoveRight(m) ==
    [m EXCEPT !.pointer = @ + 1,
              !.cells = IF m.pointer + 1 >= Len(m.cells) THEN Append(@, 0) ELSE @]

\* case '+' without the reduction modulo 256
Increment_NoWrap(cell) == cell + 1
\* case '+': (cell + 1) % 256
Increment(cell) == (cell + 1) % 256
\* case '-': (cell - 1 + 256) % 256
Decrement(cell) == (cell - 1 + 256) % 256

\* case ',' that leaves the cell as it is once the input is exhausted
ReadInput_KeepAtEnd(m) ==
    IF m.inputPointer < Len(m.input)
    THEN [m EXCEPT !.cells[m.pointer + 1] = m.input[m.inputPointer + 1],
                   !.inputPointer = @ + 1]
    ELSE m
\* case ',': the next character's code, or 0 at the end of the input
ReadInput(m) ==
    IF m.inputPointer < Len(m.input)
    THEN [m EXCEPT !.cells[m.pointer + 1] = m.input[m.inputPointer + 1],
                   !.inputPointer = @ + 1]
    ELSE [m EXCEPT !.cells[m.pointer + 1] = 0]

\* case ']' that jumps back whatever the cell holds
JumpBack_Always(cell, i, matchingBrackets) == matchingBrackets[i]
\* case '[': if (cell === 0) i = matchingBrackets[i]
JumpForward(cell, i, matchingBrackets) == IF cell = 0 THEN matchingBrackets[i] ELSE i
\* case ']': if (cell !== 0) i = matchingBrackets[i]
JumpBack(cell, i, matchingBrackets) == IF cell # 0 THEN matchingBrackets[i] ELSE i

\* one iteration of run's loop, the switch on code[i]: the machine after the
\* command, the value of i before the loop's i++, and the error thrown if any
Stepped(m, i) == [bf |-> m, i |-> i, message |-> ""]
ExecuteCommand(m, i, matchingBrackets) ==
    LET cmd == m.code[i + 1]
        cell == m.cells[m.pointer + 1]
    IN
    CASE cmd = ">" -> Stepped(MoveRight(m), i)
      [] cmd = "<" ->
           IF m.pointer = 0
           THEN [bf |-> m, i |-> i,
                 message |-> "Runtime Error: Data pointer moved left of tape start."]
           ELSE Stepped([m EXCEPT !.pointer = @ - 1], i)
      [] cmd = "+" -> Stepped([m EXCEPT !.cells[m.pointer + 1] = Increment(cell)], i)
      [] cmd = "-" -> Stepped([m EXCEPT !.cells[m.pointer + 1] = Decrement(cell)], i)
      [] cmd = "." -> Stepped([m EXCEPT !.output = Append(@, cell)], i)
      [] cmd = "," -> Stepped(ReadInput(m), i)
      [] cmd = "[" -> Stepped(m, JumpForward(cell, i, matchingBrackets))
      [] cmd = "]" -> Stepped(m, JumpBack(cell, i, matchingBrackets))
      [] OTHER -> Stepped(m, i)

payjarVars == <<tokens, ast, pc, functions, user_defined_classes, scopes, objects, output,
                trace, protoValues, inp, res, lexer, host>>

\* run() has called buildBracketMap(code): one iteration of its loop
BuildStep ==
    /\ phase = "build"
    /\ bfRun.i < Len(bf.code)
    /\ LET r == buildBracketMapIteration(bf.code, bfRun.i, bfRun.stack,
                                         bfRun.matchingBrackets) IN
       IF r.message = ""
       THEN /\ bfRun' = [i |-> bfRun.i + 1, stack |-> r.stack, matchingBrackets |-> r.map]
            /\ phase' = phase
            /\ error' = error
       ELSE /\ bfRun' = bfRun
            /\ phase' = "failed"
            /\ error' = [kind |-> "Error", message |-> r.message]
    /\ UNCHANGED <<bf, payjarVars>>

\* the end of buildBracketMap; run() starts its own loop with the map
BuildEnd ==
    /\ phase = "build"
    /\ bfRun.i >= Len(bf.code)
    /\ LET r == buildBracketMapEnd(bfRun.stack, bfRun.matchingBrackets) IN
       IF r.message = ""
       THEN /\ bfRun' = [i |-> 0, stack |-> <<>>, matchingBrackets |-> r.map]
            /\ phase' = "run"
            /\ error' = error
       ELSE /\ bfRun' = bfRun
            /\ phase' = "failed"
            /\ error' = [kind |-> "Error", message |-> r.message]
    /\ UNCHANGED <<bf, payjarVars>>

\* run(): one iteration of for (let i = 0; i < code.length; i++)
CommandStep ==
    /\ phase = "run"
    /\ bfRun.i < Len(bf.code)
    /\ ~(bf.code[bfRun.i + 1] = ">" /\ bf.pointer + 1 >= Len(bf.cells)
         /\ Len(bf.cells) >= MaxTapeLen)
    /\ ~(bf.code[bfRun.i + 1] = "." /\ Len(bf.output) >= MaxOutputLen)
    /\ LET r == ExecuteCommand(bf, bfRun.i, bfRun.matchingBrackets) IN
       IF r.message = ""
       THEN /\ bf' = r.bf
            /\ bfRun' = [bfRun EXCEPT !.i = r.i + 1]
            /\ phase' = phase
            /\ error' = error
       ELSE /\ bf' = bf
            /\ bfRun' = bfRun
            /\ phase' = "failed"
            /\ error' = [kind |-> "Error", message |-> r.message]
    /\ UNCHANGED payjarVars

\* run(): return this.output
ReturnStep ==
    /\ phase = "run"
    /\ bfRun.i >= Len(bf.code)
    /\ phase' = "done"
    /\ UNCHANGED <<bf, bfRun, error, payjarVars>>

NextTape == BuildStep \/ BuildEnd \/ CommandStep \/ ReturnStep

\* the longest command text of the exhaustive family
MaxCodeLen == 3
\* the command alphabet and one character that is no command
TextAlphabet == CommandAlphabet \cup {"a"}
AllTexts == UNION {[1..n -> TextAlphabet] : n \in 0..MaxCodeLen}

\* the longest text of brackets alone
MaxBracketLen == 4
BracketTexts == UNION {[1..n -> {"[", "]"}] : n \in 0..MaxBracketLen}

Repeat(text, n) == [k \in 1..(n * Len(text)) |-> text[((k - 1) % Len(text)) + 1]]

\* +^n .
MaxPluses == 257
PlusPrograms == {Repeat(<<"+">>, n) \o <<".">> : n \in 0..MaxPluses}

\* +^n [ > +^m < - ] > .
MaxFactor == 17
LoopProgram(n, m) ==
    Repeat(<<"+">>, n) \o <<"[", ">">> \o Repeat(<<"+">>, m) \o <<"<", "-", "]", ">", ".">>
LoopPrograms == {LoopProgram(n, m) : n, m \in 0..MaxFactor}

\* (,.)^k
MaxEcho == 3
EchoPrograms == {Repeat(<<",", ".">>, k) : k \in 0..MaxEcho}

\* input strings: empty, "Z", and U+012C followed by "A"
TapeInputs == {<<>>, <<90>>, <<300, 65>>}
\* the tape lengths a machine is constructed with
MaxCellCount == 2

\* the machines run: every text with every input and tape length; the bracket
\* texts and the program families, which read no input, on the shortest tape;
\* the echo programs with every input
TapeMachines ==
    {NewMachine(text, input, cellCount) :
        text \in AllTexts, input \in TapeInputs, cellCount \in 1..MaxCellCount}
    \cup {NewMachine(text, <<>>, 1) :
             text \in BracketTexts \cup PlusPrograms \cup LoopPrograms}
    \cup {NewMachine(text, input, 1) : text \in EchoPrograms, input \in TapeInputs}

TapeInit ==
    /\ bf \in TapeMachines
    /\ bfRun = NoRun
    /\ phase = "build"
    /\ error = NoError
    /\ tokens = <<>> /\ ast = NoNode /\ pc = 0
    /\ functions = EmptyObject /\ user_defined_classes = EmptyObject
    /\ scopes = <<EmptyObject>> /\ objects = <<>> /\ output = <<>> /\ trace = <<>>
    /\ protoValues = [n \in ObjectPrototypeNames |-> Undefined]
    /\ inp = Null /\ res = Null
    /\ lexer = NoLexer /\ host = NoHost

SpecTape == TapeInit /\ [][NextTape]_vars

\* the 1-based indices of the brackets of a command string
Brackets(code) == {j \in 1..Len(code) : code[j] \in {"[", "]"}}
\* the number of [ minus the number of ] among the first k commands
Depth(code, k) ==
    LET before == {j \in Brackets(code) : j <= k} IN
    Cardinality({j \in before : code[j] = "["}) - Cardinality({j \in before : code[j] = "]"})
Balanced(code) ==
    /\ \A k \in Brackets(code) : Depth(code, k) >= 0
    /\ Depth(code, Len(code)) = 0
\* the ] that closes the [ at the 1-based index j, or 0 when none does
Closing(code, j) ==
    LET ks == {k \in Brackets(code) : k > j /\ Depth(code, k) = Depth(code, j) - 1} IN
    IF ks = {} THEN 0 ELSE CHOOSE k \in ks : \A l \in ks : k <= l
\* the machine as constructed: nothing executed
Untouched ==
    /\ bf.output = <<>> /\ bf.pointer = 0 /\ bf.inputPointer = 0
    /\ \A c \in DOMAIN bf.cells : bf.cells[c] = 0
SyntaxErrors ==
    {UnmatchedMessage(b, j - 1) : b \in {"[", "]"}, j \in Brackets(bf.code)}

\* C13 (bracket validation): run fails in the pre-pass, before any command is
\* executed (no output, no cell, pointer or cursor changed), exactly when the
\* brackets of the filtered command string are not balanced: an unmatched ]
\* is reported with its position, otherwise an unmatched [ with its position;
\* when the brackets are balanced the jump table is symmetric and pairs each
\* [ with its properly nested matching ].
C13_BracketValidation ==
    /\ phase = "build" => Untouched
    /\ ~Balanced(bf.code) => phase \in {"build", "failed"}
    /\ phase = "failed" =>
          IF Balanced(bf.code) THEN error.message \notin SyntaxErrors
          ELSE /\ Untouched
               /\ error.kind = "Error"
               /\ IF \E k \in Brackets(bf.code) : Depth(bf.code, k) < 0
                  THEN \E k \in Brackets(bf.code) :
                          /\ Depth(bf.code, k) < 0
                          /\ \A l \in Brackets(bf.code) : l < k => Depth(bf.code, l) >= 0
                          /\ error.message = UnmatchedMessage("]", k - 1)
                  ELSE \E j \in Brackets(bf.code) :
                          /\ bf.code[j] = "[" /\ Closing(bf.code, j) = 0
                          /\ error.message = UnmatchedMessage("[", j - 1)
    /\ phase \in {"run", "done"} =>
          LET table == bfRun.matchingBrackets IN
          /\ Balanced(bf.code)
          /\ DOMAIN table = {j - 1 : j \in Brackets(bf.code)}
          /\ \A i \in DOMAIN table : table[table[i]] = i
          /\ \A j \in Brackets(bf.code) :
                bf.code[j] = "[" => table[j - 1] = Closing(bf.code, j) - 1

\* [ ] ] has failed in the pre-pass at its second ]
C13_Witness ==
    /\ bf.code = <<"[", "]", "]">>
    /\ phase = "failed"
    /\ error.message = "Syntax Error: Unmatched ']' at position 2"
    /\ Untouched

\* [ [ ] ] is running with its jump table built
C13_Nested ==
    /\ bf.code = <<"[", "[", "]", "]">>
    /\ phase = "done"
    /\ bfRun.matchingBrackets = (0 :> 3) @@ (1 :> 2) @@ (2 :> 1) @@ (3 :> 0)

\* the command the run is about to execute ("" when there is none)
Command == IF phase = "run" /\ bfRun.i < Len(bf.code) THEN bf.code[bfRun.i + 1] ELSE ""
UnderflowMessage == "Runtime Error: Data pointer moved left of tape start."

C15_CellsAreBytes ==
    \A c \in DOMAIN bf.cells : bf.cells[c] \in 0..255

\* what holds instead: a cell is a byte unless , stored a character code in
\* it, and + and - bring it back into 0..255
CellsAreBytesOrInput ==
    \A c \in DOMAIN bf.cells :
       bf.cells[c] \in 0..255 \/ \E k \in DOMAIN bf.input : bf.cells[c] = bf.input[k]

\* the code of the first input character, which is what a leading , stores
FirstInput == IF bf.input = <<>> THEN 0 ELSE bf.input[1]
\* the run of +^n . has finished
PlusProgramDone ==
    /\ phase = "done" /\ bf.code # <<>>
    /\ bf.code = Repeat(<<"+">>, Len(bf.code) - 1) \o <<".">>
\* n pluses followed by . output the one character of code n mod 256
PlusesWrap == PlusProgramDone => bf.output = <<(Len(bf.code) - 1) % 256>>
\* - on a cell holding 0 yields 255
MinusFromZero == phase = "done" /\ bf.code = <<"-">> => bf.cells[1] = 255
\* + then - , and - then +, leave the cell as the commands before them left it
\* (0 at the start, 1 after +, 255 after -, the character read after ,)
Undone(prefix, value) ==
    phase = "done" /\ bf.code \in {prefix \o <<"+", "-">>, prefix \o <<"-", "+">>}
       => bf.cells[1] = value

\* C16 (increment and decrement wrap modulo 256): for every n >= 0 the
\* program of n + commands followed by . outputs exactly one character, of
\* code n mod 256; - on a cell holding 0 yields 255; + followed by -, and -
\* followed by +, leave the cell unchanged.
C16_WrapModulo256 ==
    /\ PlusesWrap
    /\ MinusFromZero
    /\ Undone(<<>>, 0) /\ Undone(<<"+">>, 1) /\ Undone(<<"-">>, 255)
    /\ Undone(<<",">>, FirstInput)

\* the same, for the cells that hold a byte: the last conjunct is left to the
\* inputs whose first character has a code below 256
WrapModulo256OfBytes ==
    /\ PlusesWrap
    /\ MinusFromZero
    /\ Undone(<<>>, 0) /\ Undone(<<"+">>, 1) /\ Undone(<<"-">>, 255)
    /\ FirstInput < 256 => Undone(<<",">>, FirstInput)

\* the run of (,.)^k has finished
EchoProgramDone ==
    /\ phase = "done"
    /\ Len(bf.code) % 2 = 0
    /\ bf.code = Repeat(<<",", ".">>, Len(bf.code) \div 2)

\* C17 (tape input): each , stores the code of the next unread input
\* character in the current cell and advances the input cursor by one; once
\* the input is exhausted , stores 0, raises no error and leaves the cursor
\* where it is; so k repetitions of ,. output the first k characters of the
\* input in order, padded with code-0 characters when the input is shorter.
C17_TapeInput ==
    /\ [][ Command = "," =>
             /\ phase' = "run" /\ error' = error
             /\ bf' = [bf EXCEPT
                         !.cells[bf.pointer + 1] =
                             IF bf.inputPointer < Len(bf.input)
                             THEN bf.input[bf.inputPointer + 1] ELSE 0,
                         !.inputPointer =
                             IF bf.inputPointer < Len(bf.input) THEN @ + 1 ELSE @] ]_vars
    /\ [](EchoProgramDone =>
            bf.output = [j \in 1..(Len(bf.code) \div 2) |->
                           IF j <= Len(bf.input) THEN bf.input[j] ELSE 0])

\* ,.,. on the input "Z" has output "Z" and a code-0 character
C17_Witness ==
    /\ bf.code = <<",", ".", ",", ".">>
    /\ bf.input = <<90>>
    /\ phase = "done"
    /\ bf.output = <<90, 0>>
    /\ bf.inputPointer = 1

\* the cell under the pointer
CurrentCell == bf.cells[bf.pointer + 1]
\* the [ that the ] at the 1-based index j closes
Opening(code, j) == CHOOSE o \in Brackets(code) : code[o] = "[" /\ Closing(code, o) = j
\* the run of +^n [ > +^m < - ] > . has finished
LoopProgramDone(n, m) == phase = "done" /\ bf.code = LoopProgram(n, m)

\* C18 (tape loops): [ transfers control to just after its matching ] exactly
\* when the current cell is 0, and ] transfers control back to just after its
\* matching [ exactly when the current cell is not 0 (the body runs while the
\* cell is not 0); neither changes the machine; so +^n [ > +^m < - ] > .
\* outputs one character, of code (n * m) mod 256.
C18_TapeLoops ==
    /\ [][ /\ Command = "[" =>
                /\ bf' = bf /\ phase' = "run"
                /\ bfRun'.i = IF CurrentCell = 0 THEN Closing(bf.code, bfRun.i + 1)
                              ELSE bfRun.i + 1
           /\ Command = "]" =>
                /\ bf' = bf /\ phase' = "run"
                /\ bfRun'.i = IF CurrentCell # 0 THEN Opening(bf.code, bfRun.i + 1)
                              ELSE bfRun.i + 1 ]_vars
    /\ [](\A n, m \in 0..MaxFactor :
             LoopProgramDone(n, m) => bf.output = <<(n * m) % 256>>)

\* ++++++++[>++++++++<-]>. has output '@', and 17 times 17 has wrapped to 33
C18_Witness ==
    \/ LoopProgramDone(8, 8) /\ bf.output = <<64>> /\ bf.cells = <<0, 64>>
    \/ LoopProgramDone(MaxFactor, MaxFactor) /\ bf.output = <<(MaxFactor * MaxFactor) % 256>>

-----------------------------------------------------------------------------
(* Programs about calls: arguments, parameters, methods and constructors *)

\* <name>(<args>);
CallWith(name, args) == <<Id(name), T_LPAREN>> \o args \o <<T_RPAREN, T_SEMICOLON>>
\* <obj>.<method>(<args>);
MethodCallWith(obj, method, args) ==
    <<Id(obj), T_DOT, Id(method), T_LPAREN>> \o args \o <<T_RPAREN, T_SEMICOLON>>
\* <name>(<digit>)  as an expression
CallExpr(name, digit) == <<Id(name), T_LPAREN, Number(<<digit>>), T_RPAREN>>
\* `${self}`
SelfTemplate == <<Backtick(<<"$", "{", "s", "e", "l", "f", "}">>)>>

\* the definitions every program about calls ends with:
\*   func f(a) { println(a); }
\*   func t(a) { println(a); return a; }
\*   func pair(a, b) { }
\*   func g(a, a) { }
\*   public class C(@innerSelf) { let v = 8; func init(self, a) { }
\*       func m(self, b) { println(b); }  func bad(self, b) { println(u); } }
\*   public class D(@innerSelf) { func init(self, a, a) { } }
CallDefinitions ==
    Concat(<<
      FuncTokens("f", <<Id("a")>>, PrintVarTokens("a")),
      FuncTokens("t", <<Id("a")>>, PrintVarTokens("a") \o <<T_RETURN, Id("a"), T_SEMICOLON>>),
      FuncTokens("pair", <<Id("a"), T_COMMA, Id("b")>>, <<>>),
      FuncTokens("g", <<Id("a"), T_COMMA, Id("a")>>, <<>>),
      ClassTokens("C", DeclTokens(T_LET, "v", "8")
                       \o FuncTokens("init", <<T_SELF, T_COMMA, Id("a")>>, <<>>)
                       \o FuncTokens("m", <<T_SELF, T_COMMA, Id("b")>>, PrintVarTokens("b"))
                       \o FuncTokens("bad", <<T_SELF, T_COMMA, Id("b")>>,
                                     PrintVarTokens("u"))),
      ClassTokens("D", FuncTokens("init", <<T_SELF, T_COMMA, Id("a"), T_COMMA, Id("a")>>,
                                  <<>>))
    >>)

\* let x = 1; let o = NEW C(1);
CallPrelude ==
    DeclTokens(T_LET, "x", "1")
    \o <<T_LET, Id("o"), T_EQUAL, T_NEW, Id("C"), T_LPAREN, Number(<<"1">>), T_RPAREN,
         T_SEMICOLON>>

\* the statements a program about calls is made of (u is bound nowhere)
CallPool ==
    { CallWith("f", <<Id("x")>>),
      CallWith("f", <<Id("u")>>),
      CallWith("f", SelfTemplate),
      CallWith("g", <<Number(<<"1">>), T_COMMA, Number(<<"2">>)>>),
      CallWith("pair", CallExpr("t", "1") \o <<T_COMMA>> \o CallExpr("t", "2")),
      MethodCallWith("o", "m", <<Id("x")>>),
      MethodCallWith("o", "m", <<Id("u")>>),
      MethodCallWith("o", "m", SelfTemplate),
      MethodCallWith("o", "bad", <<Number(<<"1">>)>>),
      <<T_LET, Id("d"), T_EQUAL, T_NEW, Id("D"), T_LPAREN, Number(<<"1">>), T_COMMA,
        Number(<<"2">>), T_RPAREN, T_SEMICOLON>>,
      PrintVarTokens("x") }

\* the most statements a program about calls has after its prelude
MaxCallStatements == 2

CallLists == UNION {[1..n -> CallPool] : n \in 0..MaxCallStatements}

CallProgram(ss) == Header \o CallPrelude \o Concat(ss) \o CallDefinitions \o <<T_RBRACE>>

CallPrograms == {CallProgram(ss) : ss \in CallLists}

CallInit == \E toks \in CallPrograms : RunInit(toks)

SpecCalls == CallInit /\ [][Next]_vars

\* C19 (balanced scopes): every scope pushed for a function call, method call
\* or constructor invocation is popped on every exit path, so that when the
\* call has exited (by completion, by return, or by a failure raised anywhere
\* between the push and the end of the body, also while the arguments are
\* evaluated or the parameters bound) the scope stack is as deep as before
\* the call: no step of the run, which holds its calls whole, changes the
\* depth; the global scope is never popped, the depth is always at least 1.
C19_BalancedScopes ==
    /\ [](Len(scopes) >= 1)
    /\ [][Len(scopes') = Len(scopes)]_vars

\* what holds: the stack is back at the global scope after every statement
\* that did not fail, and a failed run has at most one scope left over
ScopesBalancedUnlessFailed ==
    /\ Len(scopes) >= 1
    /\ phase # "failed" => Len(scopes) = 1
    /\ phase = "failed" => Len(scopes) <= 2

UndefinedVariableMessage(name) == "Runtime Error: Undefined variable '" \o name \o "'"
\* the run of the program whose statements after the prelude are ss has left
\* its second pass
Settled(ss) == tokens = CallProgram(ss) /\ phase \in {"done", "failed"}

\* C20 (argument evaluation order): the arguments of a function or method call
\* are evaluated left to right in the caller's scope, before the callee's
\* scope is pushed and before self or a parameter is bound in it: the two
\* arguments t(1), t(2) print 1 then 2, and `self` in an argument of a call
\* made at the top level, where no self is bound, is an undefined variable,
\* for a function and for a method alike, so that the callee never runs.
C20_ArgumentsInCallerScope ==
    /\ Settled(<<CallWith("pair", CallExpr("t", "1") \o <<T_COMMA>> \o CallExpr("t", "2"))>>)
          => phase = "done" /\ output = <<Num(1), Num(2)>>
    /\ \A call \in {CallWith("f", SelfTemplate), MethodCallWith("o", "m", SelfTemplate)} :
          Settled(<<call>>) =>
             /\ phase = "failed"
             /\ error.message = UndefinedVariableMessage("self")
             /\ output = <<>>

\* what the method call does instead: the argument is evaluated after self
\* was bound in the callee's scope and is the receiver, printed by the method
SelfArgumentIsReceiver ==
    Settled(<<MethodCallWith("o", "m", SelfTemplate)>>) =>
       /\ phase = "done"
       /\ output = <<Str("<Object C (v=8)>")>>

-----------------------------------------------------------------------------
(* Programs about objects: construction, fields and member assignments *)

\* let <name> = NEW <class>(<args>);
NewWith(name, class, args) ==
    <<T_LET, Id(name), T_EQUAL, T_NEW, Id(class), T_LPAREN>> \o args
    \o <<T_RPAREN, T_SEMICOLON>>

\* the definitions every program about objects ends with:
\*   func t(a) { println(a); return a; }
\*   func mk(x) { let r = NEW E(t(1)); }
\*   public class E(@innerSelf) { let a = t(3); let b = t(x);
\*       func init(self, p) { println(p); return 5; } }
\*   public class P(@innerSelf) { let f = 1; let g = 2; }
ObjectDefinitions ==
    Concat(<<
      FuncTokens("t", <<Id("a")>>, PrintVarTokens("a") \o <<T_RETURN, Id("a"), T_SEMICOLON>>),
      FuncTokens("mk", <<Id("x")>>, NewWith("r", "E", CallExpr("t", "1"))),
      ClassTokens("E", <<T_LET, Id("a"), T_EQUAL>> \o CallExpr("t", "3") \o <<T_SEMICOLON>>
                       \o <<T_LET, Id("b"), T_EQUAL, Id("t"), T_LPAREN, Id("x"), T_RPAREN,
                            T_SEMICOLON>>
                       \o FuncTokens("init", <<T_SELF, T_COMMA, Id("p")>>,
                                     PrintVarTokens("p")
                                     \o <<T_RETURN, Number(<<"5">>), T_SEMICOLON>>)),
      ClassTokens("P", DeclTokens(T_LET, "f", "1") \o DeclTokens(T_LET, "g", "2"))
    >>)

\* let x = 4;
ObjectPrelude == DeclTokens(T_LET, "x", "4")

\* the statements a program about objects is made of (no class U is defined)
ObjectPool ==
    { NewWith("e", "E", CallExpr("t", "1")),
      NewWith("n", "U", CallExpr("t", "1")),
      <<Id("mk"), T_LPAREN, Number(<<"6">>), T_RPAREN, T_SEMICOLON>>,
      NewTokens("p", "P"),
      NewTokens("q", "P"),
      FieldAssignTokens("p", "f", "7"),
      FieldAssignTokens("q", "g", "9") }

\* the most statements a program about objects has after its prelude
MaxObjectStatements == 3

ObjectLists == UNION {[1..n -> ObjectPool] : n \in 0..MaxObjectStatements}

ObjectProgram(ss) ==
    Header \o ObjectPrelude \o Concat(ss) \o ObjectDefinitions \o <<T_RBRACE>>

ObjectPrograms == {ObjectProgram(ss) : ss \in ObjectLists}

ObjectInit == \E toks \in ObjectPrograms : RunInit(toks)

SpecObjects == ObjectInit /\ [][Next]_vars

\* the top-level statement about to execute
CurrentStatement == ast.body[pc]
\* the top-level statement about to execute creates an instance of class
Creates(class) ==
    /\ phase = "exec" /\ pc <= Len(ast.body)
    /\ CurrentStatement.type = "variable_declaration"
    /\ CurrentStatement.value.type = "object_creation"
    /\ CurrentStatement.value.class_name = class

\* the instance the global variable name holds
InstanceOf(name) == objects[scopes[1][name].value.n]

\* C21 (object construction order): a creation resolves the class first and
\* fails on an undefined class before any argument is evaluated, so that the
\* step that executes `let n = NEW U(t(1));` fails with the undefined-class
\* error and prints nothing; a creation of E evaluates the argument t(1), then
\* the initializers of a and b in declaration order and in the calling scope
\* (b = t(x) takes the caller's x), then runs init, and binds the instance
\* whatever init returns.
C21_ConstructionOrder ==
    [][ /\ Creates("U") =>
              /\ phase' = "failed"
              /\ error'.message = UndefinedClassMessage("U")
              /\ output' = output
        /\ Creates("E") /\ "e" \notin DOMAIN scopes[1] =>
              /\ phase' = "exec"
              /\ output' = output \o <<Num(1), Num(3), Num(4), Num(1)>>
              /\ IsObj(scopes'[1]["e"].value)
              /\ LET e == objects'[scopes'[1]["e"].value.n] IN
                 /\ e.class_name = "E"
                 /\ e.fieldOrder = <<"a", "b">>
                 /\ e.fields["a"].value = Num(3) /\ e.fields["b"].value = Num(4)
      ]_vars

\* what holds: the argument of the creation of an undefined class is evaluated
\* (t(1) prints 1) before the class is looked up; the rest is as claimed, also
\* for the creation made in mk(6), whose initializer b = t(x) takes mk's x
ArgumentsBeforeClass ==
    [][ /\ Creates("U") =>
              /\ phase' = "failed"
              /\ error'.message = UndefinedClassMessage("U")
              /\ output' = Append(output, Num(1))
        /\ Creates("E") /\ "e" \notin DOMAIN scopes[1] =>
              /\ phase' = "exec"
              /\ output' = output \o <<Num(1), Num(3), Num(4), Num(1)>>
              /\ IsObj(scopes'[1]["e"].value)
              /\ LET e == objects'[scopes'[1]["e"].value.n] IN
                 /\ e.class_name = "E"
                 /\ e.fieldOrder = <<"a", "b">>
                 /\ e.fields["a"].value = Num(3) /\ e.fields["b"].value = Num(4)
        /\ (phase = "exec" /\ pc <= Len(ast.body)
            /\ CurrentStatement.type = "function_call" /\ CurrentStatement.name = "mk") =>
              /\ phase' = "exec"
              /\ output' = output \o <<Num(1), Num(3), Num(6), Num(1)>>
              /\ Len(objects') = Len(objects) + 1
              /\ objects'[Len(objects')].fields["b"].value = Num(6)
      ]_vars

-----------------------------------------------------------------------------
(* Programs whose top-level body mixes definitions and statements in any order *)

\* what the body of such a program is made of:
\*   func f() { }   func g() { }   public class f(@innerSelf) { }
\*   public class A(@innerSelf) { }   println(1);   let x = 1;
DefinitionPool ==
    { FuncTokens("f", <<>>, <<>>),
      FuncTokens("g", <<>>, <<>>),
      ClassTokens("f", <<>>),
      ClassTokens("A", <<>>),
      PrintNumberTokens("1"),
      DeclTokens(T_LET, "x", "1") }

\* the most items the body of such a program has
MaxItems == 4

DefinitionLists == UNION {[1..n -> DefinitionPool] : n \in 0..MaxItems}

DefinitionPrograms == {Header \o Concat(ss) \o <<T_RBRACE>> : ss \in DefinitionLists}

DefinitionInit == \E toks \in DefinitionPrograms : RunInit(toks)

SpecDefinitions == DefinitionInit /\ [][Next]_vars

\* the names the top-level body defines with nodes of one type
DefinedNames(type) == {ast.body[i].name : i \in DefinitionsOf(type)}

\* the top-level body defines two functions, or two classes, of one name
DuplicateDefinitions ==
    \E i, j \in DOMAIN ast.body :
       /\ i < j
       /\ ast.body[i].type \in {"function_definition", "class_definition"}
       /\ ast.body[j].type = ast.body[i].type
       /\ ast.body[j].name = ast.body[i].name

AlreadyDefinedMessages ==
    {"Runtime Error: Function '" \o n \o "' already defined globally." : n \in {"f", "g"}}
    \cup {"Runtime Error: Class '" \o n \o "' already defined." : n \in {"f", "A"}}

\* C22 (duplicate definitions are fatal in pass 1): a parsed program whose
\* top-level body defines two functions of one name or two classes of one
\* name, wherever in the body, never leaves the first pass except by failing
\* with the already-defined error, with nothing printed and no variable bound;
\* a program without such a pair passes the first pass, whatever names its
\* functions share with its classes, and then holds every function and every
\* class of the body in its table.
C22_DuplicateDefinitions ==
    phase # "parse" /\ ast # NoNode =>
       /\ DuplicateDefinitions =>
             /\ phase \in {"hoist", "failed"}
             /\ output = <<>>
             /\ scopes = <<EmptyObject>>
             /\ phase = "failed" => error.message \in AlreadyDefinedMessages
             /\ phase = "hoist" => pc <= Len(ast.body)
       /\ ~DuplicateDefinitions =>
             /\ error.message \notin AlreadyDefinedMessages
             /\ phase \in {"exec", "done"} =>
                   /\ DOMAIN functions = DefinedNames("function_definition")
                   /\ DOMAIN user_defined_classes = DefinedNames("class_definition")

\* a run failed in the first pass on the second of two classes A that follow
\* a print statement and a declaration
C22_Witness ==
    /\ phase = "failed"
    /\ ast # NoNode
    /\ DuplicateDefinitions
    /\ Len(ast.body) = 4
    /\ ast.body[1].type = "print_statement"
    /\ ast.body[2].type = "class_definition"
    /\ ast.body[3].type = "variable_declaration"
    /\ ast.body[4].type = "class_definition"
    /\ error.message = "Runtime Error: Class 'A' already defined."

\* a finished run whose body defines a function f and a class f
SharedNameAccepted ==
    /\ phase = "done"
    /\ "f" \in DOMAIN functions
    /\ "f" \in DOMAIN user_defined_classes

-----------------------------------------------------------------------------
(* Properties of method definitions (SpecParse) *)

\* C23 (method parameter lists): the parser accepts a method definition in a
\* class body only if its parameter list begins with `self`: the program
\* whose class B defines m with an empty parameter list, or with one that
\* begins with another name, fails in the parser and nothing of it is
\* interpreted.
C23_MethodParameters ==
    \A ps \in {q \in ParamLists : q = <<>> \/ q[1] # "self"} :
       tokens = MethodParamProgram(ps) =>
          /\ phase \in {"parse", "failed"}
          /\ NothingInterpreted
          /\ phase = "failed" => ParseFailed

\* what holds: a method whose parameter list has no `self` at all is accepted
\* and the program runs to its end; `self` after the first position is the
\* only parameter list the parser rejects, whatever the first parameter
MethodsWithoutSelfAccepted ==
    \A ps \in ParamLists :
       tokens = MethodParamProgram(ps) =>
          IF \E k \in 2..Len(ps) : ps[k] = "self"
          THEN /\ phase \in {"parse", "failed"}
               /\ phase = "failed" => ParseFailed /\ error.kind = "Error"
          ELSE /\ phase # "failed"
               /\ phase = "done" => output = <<Num(1)>>

-----------------------------------------------------------------------------
(* Properties of the statement grammar (SpecParse) *)

\* the parser has accepted the program
ParseAccepted == phase # "parse" /\ ast # NoNode

\* C24 (function bodies reuse the program-body statement grammar): every
\* statement form accepted directly in the program body (print, declaration,
\* function definition, class definition, assignment, member statement, call
\* statement) is accepted as a statement of a function body too; `return 1;`
\* is accepted in a function body and rejected directly in the program body.
C24_FunctionBodyGrammar ==
    phase # "parse" =>
       /\ \A st \in ProgramBodyForms :
             /\ tokens = InProgramBody(st) => ParseAccepted
             /\ tokens = InFunctionBody(st) => ParseAccepted
       /\ tokens = InFunctionBody(ReturnForm) => ParseAccepted
       /\ tokens = InProgramBody(ReturnForm) => ParseFailed

\* what holds: a function body takes the forms of the program body except the
\* definitions; func and class inside a function body are parse errors
DefinitionsOnlyInProgramBody ==
    phase # "parse" =>
       /\ \A st \in ProgramBodyForms : tokens = InProgramBody(st) => ParseAccepted
       /\ \A st \in SimpleForms \cup {ReturnForm} :
             tokens = InFunctionBody(st) => ParseAccepted
       /\ \A st \in DefinitionForms :
             tokens = InFunctionBody(st) =>
                /\ ParseFailed
                /\ error.message
                     = "Syntax Error: Unexpected token in function body: " \o st[1].type
       /\ tokens = InProgramBody(ReturnForm) =>
             /\ ParseFailed
             /\ error.message = "Syntax Error: Unexpected token in main body: RETURN"

-----------------------------------------------------------------------------
(* The Lexer: source text (a sequence of characters) -> tokens *)

\* the backtick, which a string of this notation cannot hold, under a name
BacktickChar == "<backtick>"

Digits == {"0", "1", "2", "3", "4", "5", "6", "7", "8", "9"}
\* the characters /\s/ matches, of those the texts are made of
WhiteSpace == {" ", "\t", "\n", "\r"}
\* where `.` stops and `$` matches with the m flag
LineTerminators == {"\n", "\r"}

\* K applied to the value of v, which is computed once
With(v, K(_)) == CHOOSE y \in {K(x) : x \in {v}} : TRUE

\* the least member of a non-empty set of integers
Least(set) == CHOOSE k \in set : \A j \in set : k <= j

RECURSIVE RemoveLineComments(_, _)
\* text.replace(/\/\/.*$/gm, ''), from index i on
RemoveLineComments(text, i) ==
    IF i > Len(text) THEN <<>>
    ELSE IF text[i] = "/" /\ i < Len(text) /\ text[i + 1] = "/"
    THEN LET ends == {k \in i..Len(text) : text[k] \in LineTerminators} IN
         IF ends = {} THEN <<>> ELSE RemoveLineComments(text, Least(ends))
    ELSE <<text[i]>> \o RemoveLineComments(text, i + 1)

RECURSIVE RemoveBlockComments(_, _)
\* text.replace(/\/\*[\s\S]*?\*\//g, ''), from index i on
RemoveBlockComments(text, i) ==
    IF i > Len(text) THEN <<>>
    ELSE LET closes == {k \in (i + 2)..(Len(text) - 1) : text[k] = "*" /\ text[k + 1] = "/"} IN
         IF text[i] = "/" /\ i < Len(text) /\ text[i + 1] = "*" /\ closes # {}
         THEN RemoveBlockComments(text, Least(closes) + 2)
         ELSE <<text[i]>> \o RemoveBlockComments(text, i + 1)

removeComments(text) == RemoveBlockComments(RemoveLineComments(text, 1), 1)

\* new Lexer(text)
NewLexer(text) ==
    With(removeComments(text), LAMBDA cleaned :
        [text |-> cleaned, pos |-> 0,
         current_char |-> IF Len(cleaned) > 0 THEN cleaned[1] ELSE NoChar])

\* Lexer.advance (pos counts from 0, as in the source)
LexerAdvance(L) ==
    [L EXCEPT !.pos = L.pos + 1,
              !.current_char = IF L.pos + 1 < Len(L.text) THEN L.text[L.pos + 2] ELSE NoChar]

RECURSIVE skipWhitespace(_)
skipWhitespace(L) ==
    IF L.current_char # NoChar /\ L.current_char \in WhiteSpace
    THEN With(LexerAdvance(L), LAMBDA next : skipWhitespace(next))
    ELSE L

\* peek(1)
peek(L) == IF L.pos + 1 < Len(L.text) THEN L.text[L.pos + 2] ELSE NoChar

RECURSIVE identifier(_, _)
\* the loop of identifier(): [L, result]
identifier(L, result) ==
    IF L.current_char # NoChar /\ L.current_char \in WordChars
    THEN With(LexerAdvance(L), LAMBDA next : identifier(next, Append(result, L.current_char)))
    ELSE [L |-> L, result |-> result]

RECURSIVE number(_, _)
\* the loop of the NUMBER branch: [L, result]
number(L, result) ==
    IF L.current_char # NoChar /\ L.current_char \in Digits
    THEN With(LexerAdvance(L), LAMBDA next : number(next, Append(result, L.current_char)))
    ELSE [L |-> L, result |-> result]

RECURSIVE stringBody(_, _, _)
\* the loop of stringLiteral: [L, result]
stringBody(L, quoteChar, result) ==
    IF L.current_char # NoChar /\ L.current_char # quoteChar
    THEN With(LexerAdvance(L),
              LAMBDA next : stringBody(next, quoteChar, Append(result, L.current_char)))
    ELSE [L |-> L, result |-> result]

\* a stringLiteral that leaves the closing quote unread
stringLiteral_KeepClosingQuote(L, quoteChar) ==
    With(stringBody(LexerAdvance(L), quoteChar, <<>>), LAMBDA b :
        IF b.L.current_char = quoteChar
        THEN [ok |-> TRUE, L |-> b.L, result |-> b.result]
        ELSE [ok |-> FALSE, L |-> b.L, result |-> <<>>])

\* stringLiteral(quoteChar): ok is FALSE when it throws
stringLiteral(L, quoteChar) ==
    With(stringBody(LexerAdvance(L), quoteChar, <<>>), LAMBDA b :
        IF b.L.current_char = quoteChar
        THEN [ok |-> TRUE, L |-> LexerAdvance(b.L), result |-> b.result]
        ELSE [ok |-> FALSE, L |-> b.L, result |-> <<>>])

keywords ==
    ("public" :> "PUBLIC") @@ ("private" :> "PRIVATE") @@ ("class" :> "CLASS")
    @@ ("main" :> "MAIN") @@ ("self" :> "SELF") @@ ("inner_self" :> "INNERSELF")
    @@ ("innerSelf" :> "INNERSELF") @@ ("func" :> "DEF") @@ ("println" :> "PRINT")
    @@ ("pass" :> "PASS") @@ ("let" :> "LET") @@ ("const" :> "CONST") @@ ("var" :> "VAR")
    @@ ("NEW" :> "NEW") @@ ("readln" :> "READLN") @@ ("return" :> "RETURN")

\* the one-character tokens, and the characters that may be followed by `=`
Punctuation ==
    ("+" :> "PLUS") @@ ("-" :> "MINUS") @@ ("*" :> "MULTIPLY") @@ ("/" :> "DIVIDE")
    @@ ("%" :> "MODULO") @@ ("(" :> "LPAREN") @@ (")" :> "RPAREN") @@ ("{" :> "LBRACE")
    @@ ("}" :> "RBRACE") @@ (";" :> "SEMICOLON") @@ ("," :> "COMMA") @@ ("." :> "DOT")
    @@ ("@" :> "AT")
Comparison ==
    ("=" :> <<"EQUAL", "EQUAL_EQUAL">>) @@ ("<" :> <<"LESS_THAN", "LESS_EQUAL">>)
    @@ (">" :> <<"GREATER_THAN", "GREATER_EQUAL">>)

\* outcomes of getNextToken: a token, null, or an Error thrown
LexToken(L, token) == [L |-> L, kind |-> "token", token |-> token, message |-> ""]
LexNull(L) == [L |-> L, kind |-> "null", token |-> NoToken, message |-> ""]
LexError(L, message) == [L |-> L, kind |-> "error", token |-> NoToken, message |-> message]

InvalidCharacter(c) == "Lexer Error: Invalid character: " \o c
UnterminatedString == "Lexer Error: Unterminated string literal"

getNextToken(L0) ==
    IF L0.current_char = NoChar THEN LexNull(L0)
    ELSE
    With(skipWhitespace(L0), LAMBDA L :
    LET c == L.current_char IN
    IF c = NoChar THEN LexNull(L)
    ELSE IF c \in WordChars \ Digits
    THEN With(identifier(L, <<>>), LAMBDA r :
            LET id == Join(r.result) IN
            LexToken(r.L, IF id \in DOMAIN keywords THEN Token(keywords[id], id)
                          ELSE Id(id)))
    ELSE IF c \in Digits
    THEN With(number(L, <<>>), LAMBDA r : LexToken(r.L, Number(r.result)))
    ELSE IF c \in DOMAIN Comparison
    THEN IF peek(L) = "="
         THEN LexToken(LexerAdvance(LexerAdvance(L)), Token(Comparison[c][2], c \o "="))
         ELSE LexToken(LexerAdvance(L), Token(Comparison[c][1], c))
    ELSE IF c = "!"
    THEN IF peek(L) = "="
         THEN LexToken(LexerAdvance(LexerAdvance(L)), Token("NOT_EQUAL", "!="))
         ELSE LexError(L, InvalidCharacter(c))
    ELSE IF c \in DOMAIN Punctuation
    THEN LexToken(LexerAdvance(L), Token(Punctuation[c], c))
    ELSE IF c \in {"\"", "'"}
    THEN With(stringLiteral(L, c), LAMBDA r :
            IF r.ok THEN LexToken(r.L, TextToken("STRING_LITERAL", r.result))
            ELSE LexError(r.L, UnterminatedString))
    ELSE IF c = BacktickChar
    THEN With(stringLiteral(L, BacktickChar), LAMBDA r :
            IF r.ok THEN LexToken(r.L, Backtick(r.result))
            ELSE LexError(r.L, UnterminatedString))
    ELSE LexError(L, InvalidCharacter(c)))

\* one iteration of the loop of tokenize(): a token is pushed, or null ends
\* the loop, or the Error leaves tokenize
TokenizeStep ==
    /\ phase = "lex"
    /\ \E r \in {getNextToken(lexer)} :
       /\ lexer' = r.L
       /\ tokens' = IF r.kind = "token" THEN Append(tokens, r.token) ELSE tokens
       /\ phase' = CASE r.kind = "token" -> "lex"
                     [] r.kind = "null" -> "lexed"
                     [] r.kind = "error" -> "failed"
       /\ error' = IF r.kind = "error" THEN [kind |-> "Error", message |-> r.message]
                   ELSE error
    /\ UNCHANGED <<host, bf, bfRun, ast, pc, functions, user_defined_classes, scopes, objects,
                   output, trace, protoValues, inp, res>>

NextLex == TokenizeStep

\* the characters the exhaustive texts are made of, and their greatest length
LexAlphabet == {"a", "1", " ", "\n", "=", "!", "\"", "/", "*", "#"}
MaxTextLen == 4
TextsUpTo(n) == UNION {[1..k -> LexAlphabet] : k \in 0..n}

\* texts with keywords, inherited names, every operator and quote
SampleTexts ==
    { <<"s", "e", "l", "f">>,
      <<"l", "e", "t", " ", "x">>,
      <<"t", "o", "S", "t", "r", "i", "n", "g">>,
      <<"x", "<", "=", "1">>,
      <<"a", ">", "=", "b">>,
      <<"a", "!", "=", "b">>,
      <<"a", "=", "=", "b">>,
      <<"a", "<", "b", ">", "c">>,
      <<BacktickChar, "a", BacktickChar>>,
      <<"'", "a", "'">>,
      <<"'", "a">>,
      <<"N", "E", "W", " ", "A">>,
      <<"a", ".", "b", "(", "c", ")", ";">>,
      <<"{", "x", "+", "1", "-", "2", "*", "3", "/", "4", "%", "5", "}">>,
      <<"@", "_", "a", "1", ",">>,
      <<"a", " ", "!", " ", "b">>,
      <<"p", "r", "i", "n", "t", "l", "n">> }

\* new Lexer(text).tokenize() is about to run
LexInit ==
    /\ \E text \in TextsUpTo(MaxTextLen) \cup SampleTexts : lexer = NewLexer(text)
    /\ tokens = <<>>
    /\ phase = "lex"
    /\ ast = NoNode /\ pc = 0
    /\ functions = EmptyObject /\ user_defined_classes = EmptyObject
    /\ scopes = <<EmptyObject>> /\ objects = <<>> /\ output = <<>> /\ trace = <<>>
    /\ error = NoError
    /\ protoValues = [n \in ObjectPrototypeNames |-> Undefined]
    /\ inp = Null /\ res = Null
    /\ bf = NoMachine /\ bfRun = NoRun /\ host = NoHost

\* tokenize() is a synchronous loop: once started its iterations keep coming.
\* This is WF_vars(TokenizeStep) with ENABLED <<TokenizeStep>>_vars written
\* out: an iteration is possible exactly while the loop runs, and changes
\* the state.
TokenizeFair == []<>(phase # "lex") \/ []<><<TokenizeStep>>_vars

SpecLex == LexInit /\ [][NextLex]_vars /\ TokenizeFair

\* the position (from 0) of the first character at or after the cursor that
\* is not whitespace; the length of the text when there is none
Start(L) ==
    LET rest == {k \in L.pos..(Len(L.text) - 1) : L.text[k + 1] \notin WhiteSpace} IN
    IF rest = {} THEN Len(L.text) ELSE Least(rest)

\* token t is what the characters lexeme spell
Spells(lexeme, t) ==
    IF t.type \in {"STRING_LITERAL", "BACKTICK_STRING"}
    THEN /\ Len(lexeme) >= 2
         /\ lexeme[1] \in {"\"", "'", BacktickChar}
         /\ lexeme = <<lexeme[1]>> \o t.chars \o <<lexeme[1]>>
    ELSE Len(lexeme) >= 1 /\ t.value = Join(lexeme)

LexerErrors ==
    {UnterminatedString} \cup {InvalidCharacter(c) : c \in {"!", "#"}}

\* C28 (lexer progress and termination): the cursor stays within the text;
\* each call of getNextToken leaves the text alone, never moves the cursor
\* back, and either fails with a `Lexer Error: ...` message, or returns null
\* with only whitespace left, or pushes one token, spelled by the characters
\* between the first non-whitespace position and the new cursor, which is
\* beyond the old one; and tokenize comes to its end.
C28_LexerProgress ==
    /\ [](lexer.pos \in 0..Len(lexer.text))
    /\ [][phase = "lex" =>
            /\ lexer'.text = lexer.text
            /\ lexer'.pos >= lexer.pos
            /\ \/ /\ phase' = "failed"
                  /\ error'.message \in LexerErrors
                  /\ tokens' = tokens
               \/ /\ phase' = "lexed"
                  /\ Start(lexer) = Len(lexer.text)
                  /\ tokens' = tokens
               \/ /\ phase' = "lex"
                  /\ lexer'.pos > lexer.pos
                  /\ Len(tokens') = Len(tokens) + 1
                  /\ SubSeq(tokens', 1, Len(tokens)) = tokens
                  /\ Spells(SubSeq(lexer.text, Start(lexer) + 1, lexer'.pos),
                            tokens'[Len(tokens')])
         ]_vars
    /\ <>(phase \in {"lexed", "failed"})

\* tokenize has returned two tokens from a text that begins and ends with
\* whitespace
C28_Witness ==
    /\ phase = "lexed"
    /\ Len(tokens) = 2
    /\ Len(lexer.text) = 4
    /\ lexer.pos = 4
    /\ lexer.text[1] \in WhiteSpace
    /\ lexer.text[4] \in WhiteSpace

-----------------------------------------------------------------------------
(* The extension host: the payjar.runCode command.  Two builds of the        *)
(* handler exist in the repository: the source (extension.ts) and the        *)
(* compiled copy; host.build says which one is installed.                    *)

RECURSIVE tokenizeLoop(_, _)
\* Lexer.tokenize, whole: [ok, tokens, message]
tokenizeLoop(L, toks) ==
    With(getNextToken(L), LAMBDA r :
        CASE r.kind = "token" -> tokenizeLoop(r.L, Append(toks, r.token))
          [] r.kind = "null" -> [ok |-> TRUE, tokens |-> toks, message |-> ""]
          [] r.kind = "error" -> [ok |-> FALSE, tokens |-> <<>>, message |-> r.message])

RECURSIVE interpretPass(_, _, _, _)
\* one pass of Interpreter.interpret over body, from statement i on
interpretPass(S, body, i, second) ==
    IF i > Len(body) THEN Normal(S, Undefined)
    ELSE With(IF second THEN executeStatement(S, body[i]) ELSE hoistStatement(S, body[i]),
              LAMBDA r : IF r.ctl = "throw" THEN r
                         ELSE interpretPass(r.S, body, i + 1, second))

\* new Interpreter().interpret(ast), whole
interpret(node) ==
    LET S0 == InterpState(<<EmptyObject>>, <<>>, <<>>, <<>>,
                          [n \in ObjectPrototypeNames |-> Undefined], EmptyObject, EmptyObject)
    IN With(interpretPass(S0, node.body, 1, FALSE), LAMBDA first :
          IF first.ctl = "throw" THEN first ELSE interpretPass(first.S, node.body, 1, TRUE))

\* args.map(String).join(' ') of what each console.log call received
Printed(S) == [k \in DOMAIN S.output |-> JsToString(S, S.output[k], Len(S.objects) + 1).s]

\* lexer, parser and interpreter applied to code: where the failure was thrown
\* ("none" when there was none), its message, and what was printed
RunEngine(code) ==
    With(tokenizeLoop(NewLexer(code), <<>>), LAMBDA lexed :
    IF ~lexed.ok THEN [failedAt |-> "lex", message |-> lexed.message, printed |-> <<>>]
    ELSE With(parse(lexed.tokens), LAMBDA parsed :
    IF ~parsed.ok
    THEN [failedAt |-> "parse", message |-> parsed.err.message, printed |-> <<>>]
    ELSE With(interpret(parsed.node), LAMBDA ran :
    IF ran.ctl = "throw"
    THEN [failedAt |-> "interpret", message |-> ran.value.s, printed |-> Printed(ran.S)]
    ELSE [failedAt |-> "none", message |-> "", printed |-> Printed(ran.S)])))

RunningLine == "--- Running PayJar Code ---"
SuccessLine == "--- Execution Finished Successfully ---"
FailedLine == "--- Execution FAILED ---"
ErrorLine(message) == "Error: " \o message

\* what the output channel of a run holds when the handler is left
ChannelLines(e) ==
    <<RunningLine>> \o e.printed
    \o (IF e.failedAt = "none" THEN <<SuccessLine>> ELSE <<FailedLine, ErrorLine(e.message)>>)

\* the handler of the source: originalConsoleLog is taken before the try and
\* put back in the finally clause
runCodeSource(h, code) ==
    LET originalConsoleLog == h.consoleLog IN
    With(RunEngine(code), LAMBDA e :
        [h EXCEPT !.channels = Append(@, ChannelLines(e)),
                  !.consoleLog = originalConsoleLog,
                  !.thrown = "none"])

\* the handler of the compiled copy: originalConsoleLog is a const of the try
\* block, declared after the parse; the success path puts it back; the catch
\* clause, where the name is not in scope, throws a ReferenceError at its
\* last statement, after the two lines were appended
runCodeCompiled(h, code) ==
    LET k == Len(h.channels) + 1
        originalConsoleLog == h.consoleLog
    IN With(RunEngine(code), LAMBDA e :
        [h EXCEPT !.channels = Append(@, ChannelLines(e)),
                  !.consoleLog = CASE e.failedAt = "none" -> originalConsoleLog
                                   [] e.failedAt = "interpret" -> <<"channel", k>>
                                   [] OTHER -> h.consoleLog,
                  !.thrown = IF e.failedAt = "none" THEN "none" ELSE "ReferenceError"])

\* the documents the active editor may hold
\* public class main(@self){println(1);}
PrintsOne ==
    <<"p", "u", "b", "l", "i", "c", " ", "c", "l", "a", "s", "s", " ", "m", "a", "i", "n",
      "(", "@", "s", "e", "l", "f", ")", "{", "p", "r", "i", "n", "t", "l", "n", "(",
      "1", ")", ";", "}">>
\* public class main(@self){println(#);}
BadCharacter ==
    <<"p", "u", "b", "l", "i", "c", " ", "c", "l", "a", "s", "s", " ", "m", "a", "i", "n",
      "(", "@", "s", "e", "l", "f", ")", "{", "p", "r", "i", "n", "t", "l", "n", "(",
      "#", ")", ";", "}">>
\* public class main(@self){println(1)}
MissingSemicolon ==
    <<"p", "u", "b", "l", "i", "c", " ", "c", "l", "a", "s", "s", " ", "m", "a", "i", "n",
      "(", "@", "s", "e", "l", "f", ")", "{", "p", "r", "i", "n", "t", "l", "n", "(",
      "1", ")", "}">>
\* public class main(@self){println(2);println(u);}
UndefinedAfterPrint ==
    <<"p", "u", "b", "l", "i", "c", " ", "c", "l", "a", "s", "s", " ", "m", "a", "i", "n",
      "(", "@", "s", "e", "l", "f", ")", "{", "p", "r", "i", "n", "t", "l", "n", "(",
      "2", ")", ";", "p", "r", "i", "n", "t", "l", "n", "(", "u", ")", ";", "}">>
\* public class main(@self){func f(){}func f(){}}
DuplicateFunction ==
    <<"p", "u", "b", "l", "i", "c", " ", "c", "l", "a", "s", "s", " ", "m", "a", "i", "n",
      "(", "@", "s", "e", "l", "f", ")", "{", "f", "u", "n", "c", " ", "f", "(", ")",
      "{", "}", "f", "u", "n", "c", " ", "f", "(", ")", "{", "}", "}">>
NoEditor == [editor |-> FALSE, languageId |-> "", code |-> <<>>]
OtherDocument == [editor |-> TRUE, languageId |-> "plaintext", code |-> PrintsOne]
PayjarDocuments ==
    {[editor |-> TRUE, languageId |-> "payjar", code |-> code] :
        code \in {PrintsOne, BadCharacter, MissingSemicolon, UndefinedAfterPrint,
                  DuplicateFunction}}
Documents == {NoEditor, OtherDocument} \cup PayjarDocuments

\* the most commands run in a session
MaxRuns == 3

\* the payjar.runCode command, from its invocation to its return (or throw)
RunCode ==
    /\ phase = "host"
    /\ host.runs < MaxRuns
    /\ \E doc \in Documents :
          host' = LET h == [host EXCEPT !.runs = @ + 1, !.thrown = "none"] IN
                  IF ~doc.editor THEN h
                  ELSE IF doc.languageId # "payjar" THEN [h EXCEPT !.warnings = @ + 1]
                  ELSE IF h.build = "source" THEN runCodeSource(h, doc.code)
                  ELSE runCodeCompiled(h, doc.code)
    /\ UNCHANGED <<lexer, bf, bfRun, tokens, phase, ast, pc, functions, user_defined_classes,
                   scopes, objects, output, error, trace, protoValues, inp, res>>

NextHost == RunCode

\* the extension was activated, with one of the two builds
HostInit ==
    /\ \E build \in {"source", "compiled"} : host = [NoHost EXCEPT !.build = build]
    /\ phase = "host"
    /\ lexer = NoLexer /\ tokens = <<>>
    /\ ast = NoNode /\ pc = 0
    /\ functions = EmptyObject /\ user_defined_classes = EmptyObject
    /\ scopes = <<EmptyObject>> /\ objects = <<>> /\ output = <<>> /\ trace = <<>>
    /\ error = NoError
    /\ protoValues = [n \in ObjectPrototypeNames |-> Undefined]
    /\ inp = Null /\ res = Null
    /\ bf = NoMachine /\ bfRun = NoRun

SpecHost == HostInit /\ [][NextHost]_vars

\* the messages the documents can fail with
HostMessages ==
    { InvalidCharacter("#"),
      "Syntax Error: Expected SEMICOLON, but got RBRACE. Index: 12",
      UndefinedVariableMessage("u"),
      "Runtime Error: Function 'f' already defined globally." }

\* a channel holds the lines of a run that reported one outcome: its last
\* line is the success line, or its last two are the failure line and one
\* error message; neither line occurs elsewhere
SingleReport(lines) ==
    /\ lines[1] = RunningLine
    /\ \/ /\ lines[Len(lines)] = SuccessLine
          /\ \A j \in 1..(Len(lines) - 1) : lines[j] \notin {SuccessLine, FailedLine}
       \/ /\ Len(lines) >= 3
          /\ lines[Len(lines) - 1] = FailedLine
          /\ lines[Len(lines)] \in {ErrorLine(m) : m \in HostMessages}
          /\ \A j \in 1..(Len(lines) - 2) : lines[j] \notin {SuccessLine, FailedLine}

\* C25 (the run boundary leaves no redirected sink behind): the run command
\* catches every lex, parse and runtime failure, so that nothing is thrown
\* out of it, reports a single outcome in its channel, and on every exit
\* path has console.log back at the original function when it returns: after
\* any sequence of runs console.log is the original function.
C25_RunBoundary ==
    /\ host.consoleLog = <<"original">>
    /\ host.thrown = "none"
    /\ \A k \in DOMAIN host.channels : SingleReport(host.channels[k])

\* what holds: the build of the source is as claimed; the compiled copy
\* throws out of every failed run, and from the first run that failed in the
\* interpreter on console.log is never the original function again
OnlySourceRestores ==
    /\ \A k \in DOMAIN host.channels : SingleReport(host.channels[k])
    /\ host.build = "source" => host.consoleLog = <<"original">> /\ host.thrown = "none"
    /\ host.build = "compiled" =>
          /\ host.thrown = "ReferenceError" =>
                /\ host.channels # <<>>
                /\ host.channels[Len(host.channels)][Len(host.channels[Len(host.channels)])]
                      # SuccessLine
          /\ host.consoleLog # <<"original">>
                <=> \E k \in DOMAIN host.channels :
                       host.channels[k][Len(host.channels[k])]
                          \in {ErrorLine(UndefinedVariableMessage("u")),
                               ErrorLine("Runtime Error: Function 'f' already defined globally.")}

-----------------------------------------------------------------------------
(* Programs about bare calls made in a method or init body *)

\* the places of a body a bare call <callee>(1) can stand in:
\*   <callee>(1);              k(<callee>(1));
\*   println(<callee>(1));     return <callee>(1);
\*   let y = <callee>(1);      x = <callee>(1);
\*   k(<callee>(1) + 1);       k(-<callee>(1));
PropagatingPlaces == {"statement", "argument"}
NestedPlaces == {"print", "return", "declaration", "assignment", "binary", "unary"}

BareCall(place, callee) ==
    CASE place = "statement" -> CallWith(callee, <<Number(<<"1">>)>>)
      [] place = "argument" -> CallWith("k", CallExpr(callee, "1"))
      [] place = "print" ->
            <<T_PRINT, T_LPAREN>> \o CallExpr(callee, "1") \o <<T_RPAREN, T_SEMICOLON>>
      [] place = "return" -> <<T_RETURN>> \o CallExpr(callee, "1") \o <<T_SEMICOLON>>
      [] place = "declaration" ->
            <<T_LET, Id("y"), T_EQUAL>> \o CallExpr(callee, "1") \o <<T_SEMICOLON>>
      [] place = "assignment" ->
            <<Id("x"), T_EQUAL>> \o CallExpr(callee, "1") \o <<T_SEMICOLON>>
      [] place = "binary" ->
            CallWith("k", CallExpr(callee, "1") \o <<T_PLUS, Number(<<"1">>)>>)
      [] place = "unary" -> CallWith("k", <<T_MINUS>> \o CallExpr(callee, "1"))

\* public class main(@self) { let x = 0; let o = NEW R(); o.run();
\*   func m(a) { println(9); return 8; }
\*   func k(a) { }
\*   public class R(@innerSelf) {
\*     func init(self) { <the bare call, when body = "init"> }
\*     func run(self) { <the bare call, when body = "run"> }
\*     func m(self, a) { println(1); return 2; }
\*     func n(self, a) { println(3); return 4; } } }
ReceiverProgram(place, callee, body) ==
    Header \o DeclTokens(T_LET, "x", "0") \o NewTokens("o", "R")
    \o <<Id("o"), T_DOT, Id("run"), T_LPAREN, T_RPAREN, T_SEMICOLON>>
    \o FuncTokens("m", <<Id("a")>>,
                  PrintNumberTokens("9") \o <<T_RETURN, Number(<<"8">>), T_SEMICOLON>>)
    \o FuncTokens("k", <<Id("a")>>, <<>>)
    \o ClassTokens("R",
          FuncTokens("init", <<T_SELF>>,
                     IF body = "init" THEN BareCall(place, callee) ELSE <<>>)
          \o FuncTokens("run", <<T_SELF>>,
                        IF body = "run" THEN BareCall(place, callee) ELSE <<>>)
          \o FuncTokens("m", <<T_SELF, T_COMMA, Id("a")>>,
                        PrintNumberTokens("1") \o <<T_RETURN, Number(<<"2">>), T_SEMICOLON>>)
          \o FuncTokens("n", <<T_SELF, T_COMMA, Id("a")>>,
                        PrintNumberTokens("3") \o <<T_RETURN, Number(<<"4">>), T_SEMICOLON>>))
    \o <<T_RBRACE>>

ReceiverPrograms ==
    {ReceiverProgram(place, callee, body) :
        place \in PropagatingPlaces \cup NestedPlaces, callee \in {"m", "n"},
        body \in {"init", "run"}}

ReceiverInit == \E toks \in ReceiverPrograms : RunInit(toks)

SpecReceiver == ReceiverInit /\ [][Next]_vars

\* the run has left its second pass
Finished == phase \in {"done", "failed"}

\* C26 (receiver propagation for bare calls inside a method): in a method or
\* init body of instance o, a bare call that is a statement of the body, or
\* an argument of such a call, runs o's method of that name (m in preference
\* to the global function m; n, which only the class has); a bare call inside
\* a print or return statement, a declaration or assignment initializer, or
\* an operand of a binary or unary operator runs the global function m, and
\* for n, which is no global function, fails with `Call to undefined function
\* or method 'n'` before anything is printed.
C26_ReceiverPropagation ==
    \A body \in {"init", "run"} :
       /\ \A place \in PropagatingPlaces :
             /\ tokens = ReceiverProgram(place, "m", body) /\ Finished =>
                   phase = "done" /\ output = <<Num(1)>>
             /\ tokens = ReceiverProgram(place, "n", body) /\ Finished =>
                   phase = "done" /\ output = <<Num(3)>>
       /\ \A place \in NestedPlaces :
             /\ tokens = ReceiverProgram(place, "m", body) /\ Finished =>
                   /\ phase = "done"
                   /\ output = IF place = "print" THEN <<Num(9), Num(8)>> ELSE <<Num(9)>>
             /\ tokens = ReceiverProgram(place, "n", body) /\ Finished =>
                   /\ phase = "failed"
                   /\ error.message = UndefinedFunctionMessage("n")
                   /\ output = <<>>

\* the run whose method body holds k(n(1)); has finished: the argument ran
\* the receiver's method n
C26_Witness ==
    /\ tokens = ReceiverProgram("argument", "n", "run")
    /\ phase = "done"
    /\ output = <<Num(3)>>

-----------------------------------------------------------------------------
(* Programs about the resolution of names inside called functions *)

\* the definitions every program about name resolution ends with:
\*   func h() { println(v); v = 6; }
\*   func a(v) { h(); println(v); }
\*   func b() { let v = 2; h(); println(v); }
\*   func c() { h(); }
\*   func d() { let v = 3; c(); println(v); }
\*   func e() { const v = 5; h(); println(v); }
\*   func w() { let v = 7; }
ScopingDefinitions ==
    Concat(<<
      FuncTokens("h", <<>>, PrintVarTokens("v") \o AssignTokens("v", "6")),
      FuncTokens("a", <<Id("v")>>, CallWith("h", <<>>) \o PrintVarTokens("v")),
      FuncTokens("b", <<>>, DeclTokens(T_LET, "v", "2") \o CallWith("h", <<>>)
                            \o PrintVarTokens("v")),
      FuncTokens("c", <<>>, CallWith("h", <<>>)),
      FuncTokens("d", <<>>, DeclTokens(T_LET, "v", "3") \o CallWith("c", <<>>)
                            \o PrintVarTokens("v")),
      FuncTokens("e", <<>>, DeclTokens(T_CONST, "v", "5") \o CallWith("h", <<>>)
                            \o PrintVarTokens("v")),
      FuncTokens("w", <<>>, DeclTokens(T_LET, "v", "7"))
    >>)

\* what the program binds v to in the global scope before its calls
ScopingPreludes == {<<>>, DeclTokens(T_LET, "v", "1"), DeclTokens(T_CONST, "v", "1")}

ScopingPool ==
    { CallWith("a", <<Number(<<"4">>)>>),
      CallWith("b", <<>>),
      CallWith("c", <<>>),
      CallWith("d", <<>>),
      CallWith("e", <<>>),
      CallWith("h", <<>>),
      CallWith("w", <<>>),
      PrintVarTokens("v") }

\* the most statements a program about name resolution has after its prelude
MaxScopingStatements == 3

ScopingLists == UNION {[1..n -> ScopingPool] : n \in 0..MaxScopingStatements}

ScopingProgram(prelude, ss) ==
    Header \o prelude \o Concat(ss) \o ScopingDefinitions \o <<T_RBRACE>>

ScopingPrograms ==
    {ScopingProgram(prelude, ss) : prelude \in ScopingPreludes, ss \in ScopingLists}

ScopingInit == \E toks \in ScopingPrograms : RunInit(toks)

SpecScoping == ScopingInit /\ [][Next]_vars

\* the top-level statement about to execute is the call name(...)
Calls(name) ==
    /\ phase = "exec" /\ pc <= Len(ast.body)
    /\ CurrentStatement.type = "function_call"
    /\ CurrentStatement.name = name

ConstantAssignMessage(name) ==
    "Runtime Error: Cannot assign to a constant variable '" \o name \o "'."

\* the step prints vs, completes, and leaves every binding as it was
PrintsAndKeeps(vs) ==
    /\ phase' = "exec"
    /\ output' = output \o vs
    /\ scopes' = scopes

\* C27 (name resolution follows the call stack): h, whose body reads v and
\* then assigns 6 to v, takes the binding of the innermost active caller that
\* has one: the parameter v of a (a(4) prints 4, then 6), the local v of b
\* (2, then 6), the local v of d through the intermediate caller c (3, then
\* 6), each time leaving the global v alone; the CONST local of e is read (5)
\* and refuses the assignment; with no caller binding, h and c read and
\* reassign the global v (or fail with the undefined-variable error when the
\* program has none), and the local of w is gone after w returns.
C27_DynamicScoping ==
    [][ /\ Calls("a") => PrintsAndKeeps(<<Num(4), Num(6)>>)
        /\ Calls("b") => PrintsAndKeeps(<<Num(2), Num(6)>>)
        /\ Calls("d") => PrintsAndKeeps(<<Num(3), Num(6)>>)
        /\ Calls("w") => PrintsAndKeeps(<<>>)
        /\ Calls("e") =>
              /\ phase' = "failed"
              /\ error'.message = ConstantAssignMessage("v")
              /\ output' = output \o <<Num(5)>>
              /\ scopes' = scopes
        /\ Calls("h") \/ Calls("c") =>
              IF "v" \notin DOMAIN scopes[1]
              THEN /\ phase' = "failed"
                   /\ error'.message = UndefinedVariableMessage("v")
                   /\ output' = output
                   /\ scopes' = scopes
              ELSE IF scopes[1]["v"].kind = "CONST"
              THEN /\ phase' = "failed"
                   /\ error'.message = ConstantAssignMessage("v")
                   /\ output' = output \o <<scopes[1]["v"].value>>
                   /\ scopes' = scopes
              ELSE /\ phase' = "exec"
                   /\ output' = output \o <<scopes[1]["v"].value>>
                   /\ scopes' = <<[scopes[1] EXCEPT !["v"].value = Num(6)]>>
      ]_vars

\* let v = 1; b(); d(); c(); has run: h printed b's 2, then d's 3 through c,
\* then the global 1, which only the last call replaced by 6
C27_Witness ==
    /\ tokens = ScopingProgram(DeclTokens(T_LET, "v", "1"),
                               <<CallWith("b", <<>>), CallWith("d", <<>>),
                                 CallWith("c", <<>>)>>)
    /\ phase = "done"
    /\ output = <<Num(2), Num(6), Num(3), Num(6), Num(1)>>
    /\ scopes[1]["v"].value = Num(6)

-----------------------------------------------------------------------------
(* Instance-owned fields, on the programs about objects *)

\* the top-level statement about to execute is <obj>.<member> = <literal>;
AssignsMember ==
    /\ phase = "exec" /\ pc <= Len(ast.body)
    /\ CurrentStatement.type = "member_assignment"

\* the field bindings class P's initializers give: f = 1, g = 2
FreshFieldsOfP ==
    ("f" :> [value |-> Num(1), kind |-> "LET"]) @@ ("g" :> [value |-> Num(2), kind |-> "LET"])

\* C29 (instance-owned fields): a member assignment a.f = v on an existing
\* instance changes the value of a's field f and nothing else: every other
\* field of a, every other instance, the class table, the function table
\* and all variable bindings stay as they were (and an assignment through an
\* unbound variable changes nothing at all); and every creation of P adds
\* one instance whose fields start from the class's initializers f = 1,
\* g = 2, whatever was assigned to earlier instances, which it leaves alone.
C29_InstanceOwnedFields ==
    [][ /\ AssignsMember =>
              /\ user_defined_classes' = user_defined_classes
              /\ functions' = functions
              /\ scopes' = scopes
              /\ output' = output
              /\ IF CurrentStatement.object.name \in DOMAIN scopes[1]
                 THEN /\ phase' = "exec"
                      /\ objects' =
                           [objects EXCEPT ![scopes[1][CurrentStatement.object.name].value.n]
                                               .fields[CurrentStatement.member].value =
                                                   CurrentStatement.value.value]
                 ELSE /\ phase' = "failed"
                      /\ objects' = objects
        /\ Creates("P") /\ phase' = "exec" =>
              /\ Len(objects') = Len(objects) + 1
              /\ SubSeq(objects', 1, Len(objects)) = objects
              /\ objects'[Len(objects')].class_name = "P"
              /\ objects'[Len(objects')].fields = FreshFieldsOfP
              /\ user_defined_classes' = user_defined_classes
      ]_vars

\* let p = NEW P(); p.f = 7; let q = NEW P(); has run: p holds f = 7 and the
\* later instance q starts from f = 1
C29_Witness ==
    /\ tokens = ObjectProgram(<<NewTokens("p", "P"), FieldAssignTokens("p", "f", "7"),
                                NewTokens("q", "P")>>)
    /\ phase = "done"
    /\ InstanceOf("p").fields["f"].value = Num(7)
    /\ InstanceOf("p").fields["g"].value = Num(2)
    /\ InstanceOf("q").fields = FreshFieldsOfP

\* let p = NEW P(); let q = NEW P(); p.f = 7; has run: the assignment on p
\* left the earlier instance q of the same class alone
OtherInstanceUntouched ==
    /\ tokens = ObjectProgram(<<NewTokens("p", "P"), NewTokens("q", "P"),
                                FieldAssignTokens("p", "f", "7")>>)
    /\ phase = "done"
    /\ InstanceOf("p").fields["f"].value = Num(7)
    /\ InstanceOf("q").fields = FreshFieldsOfP

-----------------------------------------------------------------------------
(* Programs about names every plain object of the host language inherits *)

\* the characters of the names the programs splice, declare and define
NameChars(n) ==
    CASE n = "toString" -> <<"t", "o", "S", "t", "r", "i", "n", "g">>
      [] n = "constructor" -> <<"c", "o", "n", "s", "t", "r", "u", "c", "t", "o", "r">>
      [] n = "valueOf" -> <<"v", "a", "l", "u", "e", "O", "f">>
      [] n = "u" -> <<"u">>
      [] n = "x" -> <<"x">>

\* the names a program reads (u is bound nowhere, x only by let x = 1;)
SplicedNames == {"toString", "constructor", "valueOf", "u", "x"}

\* println(`${<n>}`);
SpliceTokens(n) ==
    <<T_PRINT, T_LPAREN, Backtick(<<"$", "{">> \o NameChars(n) \o <<"}">>), T_RPAREN,
      T_SEMICOLON>>

\* the statements and definitions a program about names is made of
NamePool ==
    {SpliceTokens(n) : n \in SplicedNames}
    \cup { DeclTokens(T_LET, "x", "1"),
           DeclTokens(T_LET, "toString", "1"),
           FuncTokens("valueOf", <<>>, <<>>) }

\* the most items a program about names has
MaxNameItems == 3

NameLists == UNION {[1..n -> NamePool] : n \in 0..MaxNameItems}

NameProgram(ss) == Header \o Concat(ss) \o <<T_RBRACE>>

NamePrograms == {NameProgram(ss) : ss \in NameLists}

NameInit == \E toks \in NamePrograms : RunInit(toks)

SpecNames == NameInit /\ [][Next]_vars

\* the top-level statement about to execute is println(`${n}`);
Splices ==
    /\ phase = "exec" /\ pc <= Len(ast.body)
    /\ CurrentStatement.type = "print_statement"
    /\ CurrentStatement.expression.type = "template_string"

SplicedName == CurrentStatement.expression.parts[1].name

\* C30 (only program-bound names are present in scopes and tables): the
\* first declaration of a name and the first top-level definition of a
\* function succeed whatever the name is (toString, valueOf), so that a run
\* of these programs fails only by reading a name that is not bound or by
\* declaring x twice; and the step that reads a name the program has not
\* bound, `toString`, `constructor` and `valueOf` included, fails with the
\* undefined-variable error and prints nothing.
C30_OnlyBoundNames ==
    /\ [](phase = "failed" =>
            error.message \in {UndefinedVariableMessage(n) : n \in SplicedNames}
                              \cup {RedeclarationMessage("x")})
    /\ [][ Splices /\ SplicedName \notin DOMAIN scopes[1] =>
              /\ phase' = "failed"
              /\ error'.message = UndefinedVariableMessage(SplicedName)
              /\ output' = output
         ]_vars

\* the program holds a declaration or a definition of an inherited name
NamesInherited ==
    \E i \in DOMAIN tokens : tokens[i] \in {Id("toString"), Id("valueOf")}

\* what the interpreter and the parser do with inherited names: a program
\* that declares toString or defines valueOf is rejected by the parser before
\* anything runs; reading toString, constructor or valueOf, which no program
\* here binds, completes and prints undefined; only for the other names does
\* an unbound read fail with the undefined-variable error
InheritedNamesFound ==
    /\ [](/\ ParseFailed <=> (phase # "parse" /\ NamesInherited)
          /\ ParseFailed => error.kind = "Error" /\ NothingInterpreted)
    /\ [][ Splices =>
              IF SplicedName \in ObjectPrototypeNames
              THEN /\ phase' = "exec"
                   /\ output' = Append(output, Str("undefined"))
                   /\ scopes' = scopes
              ELSE IF SplicedName \in DOMAIN scopes[1]
              THEN /\ phase' = "exec"
                   /\ output' = Append(output, Str("1"))
              ELSE /\ phase' = "failed"
                   /\ error'.message = UndefinedVariableMessage(SplicedName)
                   /\ output' = output
         ]_vars

====
